---- MODULE Spec2Model ----
(***************************************************************************)
(* A model of the lector PDF viewer core: the raster pipeline of a page    *)
(* (useCanvasLayer, useDetailCanvasLayer), the scale clamp                 *)
(* (clampScaleForPage), the selection geometry (useSelectionDimensions),  *)
(* the text selection manager (useTextLayer), the annotation store         *)
(* (useAnnotations) with the comment flow of the viewer, and the           *)
(* annotation tooltip (AnnotationTooltip).                                 *)
(***************************************************************************)
EXTENDS Integers, Sequences, FiniteSets, TLC

VARIABLES
    \* ---- raster pipeline (one hook instance of one page) ----
    surface,      \* which hook instance is observed: "base" or "detail"
    page,         \* pdfPageProxy.getViewport({scale: 1}): [width, height]
    bouncyZoom,   \* usePdf(state => state.zoom)
    zoom,         \* the debounced zoom the effect reads
    dpr,          \* useDpr()
    mounted,      \* the hook's component is mounted
    scroll,       \* the scroll container: [left, top, dirty]
    refs,         \* the refs that are attached, of "viewport" and "pageDom"
    canvas,       \* the surface: [present, width, height, display, frame, complete]
    tasks,        \* the render operations issued for the surface, in order
    cleanup,      \* the task the pending effect cleanup will cancel (0: none)
    uncaught,     \* tasks whose failure the catch handler re-threw
    \* ---- scale clamp (pure function under test) ----
    clampIn,      \* [scale, width, height] or None
    clampOut,     \* the scale clampScaleForPage returned, or None
    \* ---- selection extraction (useSelectionDimensions) ----
    selection,    \* window.getSelection(): [kind, rects (client rects)]
    dim,          \* what getDimension returned (None: not called)
    annDim,       \* what getAnnotationDimension returned (None: not called)
    \* ---- text selection manager (createTextSelectionManager) ----
    textLayers,   \* the registry: the text layer divs that are registered
    layerDom,     \* per text layer div: [endOfContent, sized, selecting]
    isPointerDown,
    listening,    \* selectionChangeAbortController is set
    prevRange,    \* prevRange is set
    isFirefox,    \* "undefined", "true" or "false"
    docSelection, \* document.getSelection(): [present, ranges]
    lastEvent,    \* the handler that ran last
    \* ---- annotation store and comment flow (useAnnotations, PDFContent) ----
    annotations,  \* the store's list
    lastCall,     \* the store call or handler that ran last: [op, id, arg]
    commented,    \* the ids updateAnnotation has given a comment
    editingAnnotationId,
    pendingSelection,
    focusedAnnotationId,
    uuids,        \* how many ids uuidv4 has handed out
    \* ---- annotation tooltip (one AnnotationTooltip) ----
    tooltip,      \* the component's props, state and refs
    \* ---- the tooltip's reference rectangle (useAnnotationTooltip) ----
    reference,    \* the page on screen, the zoom, the reference element's closure
    \* ---- the end-of-content marker among the children of a text layer ----
    marker,       \* the children, the selection's ranges, prevRange, isFirefox
    \* ---- the viewer's persistence (AnaraViewer) ----
    persistence,  \* localStorage, savedAnnotations, what the console logged
    \* ---- the pointer itself, heard by a listener or not ----
    pointerHeld,  \* a pointerdown was dispatched, and no pointerup or blur since
    \* ---- the text layer renders of useTextLayer ----
    renders       \* per text container: mounted, textLayerRef, renders in flight

rasterVars == <<surface, page, bouncyZoom, zoom, dpr, mounted, scroll, refs, canvas,
                tasks, cleanup, uncaught>>
clampVars == <<clampIn, clampOut>>
geomVars == <<selection, dim, annDim>>
textVars == <<textLayers, layerDom, isPointerDown, listening, prevRange, isFirefox,
              docSelection, lastEvent>>
storeVars == <<annotations, lastCall, commented, editingAnnotationId,
               pendingSelection, focusedAnnotationId, uuids>>
tipVars == <<tooltip, reference>>
hostVars == <<marker, persistence, pointerHeld, renders>>
uiVars == <<textVars, storeVars, tipVars, hostVars>>
vars == <<rasterVars, clampVars, geomVars, uiVars>>

None == [none |-> TRUE]

\* ------------------------------------------------------------------------
\* Exact arithmetic on the numbers the code computes with.  A number is a
\* reduced fraction [n, d] with d > 0.
\* ------------------------------------------------------------------------
Abs(x) == IF x < 0 THEN -x ELSE x

RECURSIVE GCD(_, _)
GCD(a, b) == IF b = 0 THEN a ELSE GCD(b, a % b)

Rat(n, d) == LET g == GCD(Abs(n), d) IN [n |-> n \div g, d |-> d \div g]

RInt(k) == [n |-> k, d |-> 1]

RMul(a, b) ==
    LET g1 == GCD(Abs(a.n), b.d)
        g2 == GCD(Abs(b.n), a.d)
    IN  IF a.n = 0 \/ b.n = 0 THEN RInt(0)
        ELSE [n |-> (a.n \div g1) * (b.n \div g2), d |-> (a.d \div g2) * (b.d \div g1)]

\* a / b for b > 0
RDiv(a, b) == RMul(a, [n |-> b.d, d |-> b.n])

RAdd(a, b) == Rat(a.n * b.d + b.n * a.d, a.d * b.d)

RSub(a, b) == Rat(a.n * b.d - b.n * a.d, a.d * b.d)

\* a / b < c / d for b, d > 0, compared by quotients and remainders so that
\* no product leaves the integer range
RECURSIVE FracLess(_, _, _, _)
FracLess(a, b, c, d) ==
    IF a \div b # c \div d THEN a \div b < c \div d
    ELSE IF c % d = 0 THEN FALSE
    ELSE IF a % b = 0 THEN TRUE
    ELSE FracLess(d, c % d, b, a % b)

RLt(a, b) == FracLess(a.n, a.d, b.n, b.d)

RLe(a, b) == ~RLt(b, a)

RMin(a, b) == IF RLe(a, b) THEN a ELSE b

RMax(a, b) == IF RLe(a, b) THEN b ELSE a

\* Math.floor
RFloor(a) == a.n \div a.d

RECURSIVE SqrtSearch(_, _, _)
SqrtSearch(n, lo, hi) ==
    IF lo >= hi THEN lo
    ELSE LET mid == (lo + hi + 1) \div 2
         IN  IF mid * mid <= n THEN SqrtSearch(n, mid, hi)
             ELSE SqrtSearch(n, lo, mid - 1)

\* the integer square root; exact on perfect squares
ISqrt(n) == SqrtSearch(n, 0, IF n < 46340 THEN n ELSE 46340)

\* Math.sqrt, on the fractions whose root is a fraction (the inputs are drawn
\* so that every root taken is)
RSqrt(a) == [n |-> ISqrt(a.n), d |-> ISqrt(a.d)]

IsSquare(a) == ISqrt(a.n) * ISqrt(a.n) = a.n /\ ISqrt(a.d) * ISqrt(a.d) = a.d

\* ------------------------------------------------------------------------
\* Program constants
\* ------------------------------------------------------------------------
MAX_CANVAS_PIXELS == 16777216
MAX_CANVAS_DIMENSION == 32767

\* ------------------------------------------------------------------------
\* Bounds of the model
\* ------------------------------------------------------------------------
\* render operations issued per surface in one behaviour
MaxRenders == 3

Surfaces == {"base", "detail"}

\* unscaled page sizes
PageSizes == { [width |-> 1000, height |-> 1000], [width |-> 100, height |-> 6400] }

\* zoom levels of the store
ZoomLevels == { Rat(1, 2), RInt(1), RInt(6) }

DprLevels == { 1, 2 }

\* scrollTop values of the scroll container
ScrollTops == { 0, 600, 9000 }

\* the scroll container's client size, and the page's offset in it (unscaled)
ViewportWidth == 1200
ViewportHeight == 900
PageOffsetLeft == 20
PageOffsetTop == 50

\* the requested scales of the clamp: the halves up to MaxScaleHalves / 2, the
\* scenario's 4.096 and scales large enough to clamp the smallest pages
MaxScaleHalves == 14

ClampScales ==
    { Rat(k, 2) : k \in 1..MaxScaleHalves }
        \cup { Rat(512, 125), RInt(512), RInt(4096), RInt(32767), RInt(40000) }

\* the page sizes of the clamp (w * h is a square: the area limit is a fraction)
ClampPages ==
    { <<1, 1>>, <<1, 64>>, <<64, 1>>, <<1000, 1000>>, <<100, 6400>>,
      <<6400, 100>>, <<500, 2000>>, <<250, 4000>> }

\* error.name of the failures an engine render operation can settle with
CANCELLED == "RenderingCancelledException"
FailureNames == { "UnknownErrorException", "Error" }

\* ------------------------------------------------------------------------
\* The document engine's render operation, as the hooks use it
\* ------------------------------------------------------------------------
\* the handler given to renderingTask.promise.catch: what becomes of a
\* rejection with this error.name
CatchHandlerSwallowAll(name) == "swallowed"

CatchHandler(name) ==
    IF name = CANCELLED THEN "swallowed" ELSE "rethrown"

\* pdfPageProxy.render(...): a new running operation
NewTask == [state |-> "running", error |-> "", handled |-> "none"]

\* renderingTask.cancel(): a running operation stops and its promise rejects
\* with RenderingCancelledException, which the catch handler then receives;
\* a settled operation is left as it is
RenderingTaskCancel(ts, c) ==
    IF c # 0 /\ ts[c].state = "running"
    THEN [ts EXCEPT ![c] = [state |-> "cancelled", error |-> CANCELLED,
                            handled |-> CatchHandler(CANCELLED)]]
    ELSE ts

EffectCleanupNoCancel(ts, c) == ts

\* the cleanup an effect run returned: void renderingTask.cancel()
EffectCleanup(ts, c) == RenderingTaskCancel(ts, c)

BlankCanvas == [present |-> FALSE, width |-> 0, height |-> 0, display |-> "",
                frame |-> 0, complete |-> FALSE]

\* ------------------------------------------------------------------------
\* useCanvasLayer: the layout effect's body.  ctx: getContext("2d") gave a
\* context.  The result is the surface, the operations and the cleanup.
\* ------------------------------------------------------------------------
BaseEffectBody(cv, ts, pg, z, d, ctx) ==
    LET targetScale == RMul(RInt(d), z)
        sized == [cv EXCEPT !.width = RFloor(RMul(RInt(pg.width), targetScale)),
                            !.height = RFloor(RMul(RInt(pg.height), targetScale)),
                            !.frame = 0, !.complete = FALSE]
    IN  IF ~cv.present
        THEN [canvas |-> cv, tasks |-> ts, cleanup |-> 0]
        ELSE IF ~ctx
        THEN [canvas |-> sized, tasks |-> ts, cleanup |-> 0]
        ELSE [canvas |-> sized, tasks |-> Append(ts, NewTask),
              cleanup |-> Len(ts) + 1]

\* ------------------------------------------------------------------------
\* useDetailCanvasLayer
\* ------------------------------------------------------------------------
clampNoHeightLimit(targetScale, pageWidth, pageHeight) ==
    RMin(RMin(targetScale,
              RSqrt(Rat(MAX_CANVAS_PIXELS, pageWidth * pageHeight))),
         Rat(MAX_CANVAS_DIMENSION, pageWidth))

clampIgnoresTarget(targetScale, pageWidth, pageHeight) ==
    RMin(RSqrt(Rat(MAX_CANVAS_PIXELS, pageWidth * pageHeight)),
         RMin(Rat(MAX_CANVAS_DIMENSION, pageWidth),
              Rat(MAX_CANVAS_DIMENSION, pageHeight)))

clampScaleForPage(targetScale, pageWidth, pageHeight) ==
    IF targetScale.n = 0 THEN RInt(0)
    ELSE LET wh == pageWidth * pageHeight
             areaLimit == RSqrt(Rat(MAX_CANVAS_PIXELS, IF wh > 1 THEN wh ELSE 1))
             widthLimit == Rat(MAX_CANVAS_DIMENSION,
                               IF pageWidth > 1 THEN pageWidth ELSE 1)
             heightLimit == Rat(MAX_CANVAS_DIMENSION,
                                IF pageHeight > 1 THEN pageHeight ELSE 1)
             safeScale == RMin(RMin(targetScale, areaLimit),
                               RMin(widthLimit, heightLimit))
         IN  RMax(safeScale, RInt(0))

\* ensureDetailCanvas: the detail canvas, created on first need under the
\* base canvas' parent
ensureDetailCanvas(cv, rf) ==
    IF cv.present THEN cv
    ELSE IF "pageDom" \notin rf THEN cv
    ELSE [cv EXCEPT !.present = TRUE, !.width = 300, !.height = 150]

\* a hide that leaves the pixel size as it was
HiddenDetailKeepsSize(cv) ==
    [cv EXCEPT !.display = "none", !.frame = 0, !.complete = FALSE]

HiddenDetail(cv) ==
    [cv EXCEPT !.display = "none", !.width = 0, !.height = 0,
               !.frame = 0, !.complete = FALSE]

\* the visible region of the page, in unscaled page units
VisibleRegion(pg, z, sc) ==
    LET scrollX == RDiv(RInt(sc.left), z)
        scrollY == RDiv(RInt(sc.top), z)
        viewportWidth == RDiv(RInt(ViewportWidth), z)
        viewportHeight == RDiv(RInt(ViewportHeight), z)
        \* pageRect - containerRect: the page sits at its offset, scaled by
        \* the zoom, in the scrolled content
        rectLeft == RSub(RMul(RInt(PageOffsetLeft), z), RInt(sc.left))
        rectTop == RSub(RMul(RInt(PageOffsetTop), z), RInt(sc.top))
        pageLeft == RAdd(RDiv(rectLeft, z), scrollX)
        pageTop == RAdd(RDiv(rectTop, z), scrollY)
        visibleLeft == RMax(RInt(0), RSub(scrollX, pageLeft))
        visibleTop == RMax(RInt(0), RSub(scrollY, pageTop))
        visibleRight == RMin(RInt(pg.width),
                             RSub(RAdd(scrollX, viewportWidth), pageLeft))
        visibleBottom == RMin(RInt(pg.height),
                              RSub(RAdd(scrollY, viewportHeight), pageTop))
    IN  [left |-> visibleLeft, top |-> visibleTop,
         width |-> RMax(RInt(0), RSub(visibleRight, visibleLeft)),
         height |-> RMax(RInt(0), RSub(visibleBottom, visibleTop))]

TargetDetailScale(z, d) == RMul(RMul(RInt(d), z), Rat(13, 10))

NeedsDetail(pg, z, d) ==
    LET baseTargetScale == RMul(RInt(d), RMin(z, RInt(1)))
        baseScale == clampScaleForPage(baseTargetScale, pg.width, pg.height)
    IN  /\ RLt(RInt(1), z)
        /\ RLt(Rat(1, 1000), RSub(TargetDetailScale(z, d), baseScale))

DetailEffectBody(cv, ts, pg, z, d, sc, rf, ctx) ==
    LET detailCanvas == ensureDetailCanvas(cv, rf)
        vis == VisibleRegion(pg, z, sc)
        shown == [detailCanvas EXCEPT
                    !.display = "block",
                    !.width = RFloor(RMul(vis.width, TargetDetailScale(z, d))),
                    !.height = RFloor(RMul(vis.height, TargetDetailScale(z, d))),
                    !.frame = 0, !.complete = FALSE]
    IN  IF "viewport" \notin rf
        THEN [canvas |-> cv, tasks |-> ts, cleanup |-> 0]
        ELSE IF ~detailCanvas.present \/ "pageDom" \notin rf
        THEN [canvas |-> detailCanvas, tasks |-> ts, cleanup |-> 0]
        ELSE IF ~NeedsDetail(pg, z, d) \/ RLe(vis.width, RInt(0))
                \/ RLe(vis.height, RInt(0))
        THEN [canvas |-> HiddenDetail(detailCanvas), tasks |-> ts, cleanup |-> 0]
        ELSE IF ~ctx
        THEN [canvas |-> shown, tasks |-> ts, cleanup |-> 0]
        ELSE [canvas |-> shown, tasks |-> Append(ts, NewTask),
              cleanup |-> Len(ts) + 1]

EffectBody(sf, cv, ts, pg, z, d, sc, rf, ctx) ==
    IF sf = "base" THEN BaseEffectBody(cv, ts, pg, z, d, ctx)
    ELSE DetailEffectBody(cv, ts, pg, z, d, sc, rf, ctx)

EffectRerunNoCleanup(sf, cv, ts, c, pg, z, d, sc, rf, ctx) ==
    EffectBody(sf, cv, ts, pg, z, d, sc, rf, ctx)

\* a dependency changed: React runs the previous run's cleanup, then the body
EffectRerun(sf, cv, ts, c, pg, z, d, sc, rf, ctx) ==
    EffectBody(sf, cv, EffectCleanup(ts, c), pg, z, d, sc, rf, ctx)

EffectUnmountNoCleanup(ts, c) == ts

\* the component unmounts: React runs the last run's cleanup
EffectUnmount(ts, c) == EffectCleanup(ts, c)

\* ------------------------------------------------------------------------
\* The raster pipeline's state machine
\* ------------------------------------------------------------------------
ClampIdle == clampIn = None /\ clampOut = None

GeomIdle ==
    /\ selection = [kind |-> "none", rects |-> <<>>]
    /\ dim = None
    /\ annDim = None

\* the text layer divs of the document
TextLayerDivs == {1, 2}

\* a text layer div before its text layer has rendered
BareLayer == [endOfContent |-> "absent", sized |-> FALSE, selecting |-> FALSE]

NoSelection == [present |-> FALSE, ranges |-> <<>>]

TextIdle ==
    /\ textLayers = {}
    /\ layerDom = [l \in TextLayerDivs |-> BareLayer]
    /\ isPointerDown = FALSE
    /\ listening = FALSE
    /\ prevRange = FALSE
    /\ isFirefox = "undefined"
    /\ docSelection = NoSelection
    /\ lastEvent = "none"

NoCall == [op |-> "none"]

StoreIdle ==
    /\ annotations = <<>>
    /\ lastCall = NoCall
    /\ commented = {}
    /\ editingAnnotationId = 0
    /\ pendingSelection = FALSE
    /\ focusedAnnotationId = 0
    /\ uuids = 0

TipIdle == tooltip = None /\ reference = None

HostIdle == marker = None /\ persistence = None /\ pointerHeld = FALSE /\ renders = None

UiIdle == TextIdle /\ StoreIdle /\ TipIdle /\ HostIdle

InitRaster ==
    /\ surface \in Surfaces
    /\ page \in PageSizes
    /\ bouncyZoom = RInt(1)
    /\ zoom = RInt(1)
    /\ dpr \in DprLevels
    /\ mounted = FALSE
    /\ scroll = [left |-> 0, top |-> 0, dirty |-> FALSE]
    /\ refs = {}
    /\ canvas = BlankCanvas
    /\ tasks = <<>>
    /\ cleanup = 0
    /\ uncaught = {}

\* the effect ran (again) and left this surface, these operations, this cleanup
Effected(r) ==
    /\ canvas' = r.canvas
    /\ tasks' = r.tasks
    /\ cleanup' = r.cleanup

\* the component mounts: a fresh element for the base canvas, a fresh (empty)
\* detailCanvasRef for the detail hook, the debounced zoom starts at the
\* store's zoom, and the layout effect runs for the first time
Mount(ctx) ==
    /\ ~mounted
    /\ Len(tasks) < MaxRenders
    /\ mounted' = TRUE
    /\ zoom' = bouncyZoom
    /\ LET cv0 == IF surface = "base"
                  THEN [BlankCanvas EXCEPT !.present = TRUE, !.width = 300,
                                           !.height = 150]
                  ELSE BlankCanvas
       IN  Effected(EffectBody(surface, cv0, tasks, page, bouncyZoom, dpr,
                               scroll, refs, ctx))
    /\ UNCHANGED <<surface, page, bouncyZoom, dpr, scroll, refs, uncaught, clampVars, geomVars, uiVars>>

Unmount ==
    /\ mounted
    /\ mounted' = FALSE
    /\ tasks' = EffectUnmount(tasks, cleanup)
    /\ scroll' = [scroll EXCEPT !.dirty = FALSE]
    /\ UNCHANGED <<surface, page, bouncyZoom, zoom, dpr, refs, canvas, cleanup,
                   uncaught, clampVars, geomVars, uiVars>>

\* the zoom control sets the store's zoom
SetZoom(z) ==
    /\ z # bouncyZoom
    /\ bouncyZoom' = z
    /\ UNCHANGED <<surface, page, zoom, dpr, mounted, scroll, refs, canvas, tasks,
                   cleanup, uncaught, clampVars, geomVars, uiVars>>

\* useDebounce(bouncyZoom, ..) delivers the store's zoom: the effect runs again
ZoomDebounced(ctx) ==
    /\ mounted
    /\ zoom # bouncyZoom
    /\ Len(tasks) < MaxRenders
    /\ zoom' = bouncyZoom
    /\ Effected(EffectRerun(surface, canvas, tasks, cleanup, page, bouncyZoom, dpr,
                            scroll, refs, ctx))
    /\ UNCHANGED <<surface, page, bouncyZoom, dpr, mounted, scroll, refs, uncaught,
                   clampVars, geomVars, uiVars>>

\* useDpr: the device pixel ratio changed
DprChange(d, ctx) ==
    /\ d # dpr
    /\ dpr' = d
    /\ IF mounted
       THEN /\ Len(tasks) < MaxRenders
            /\ Effected(EffectRerun(surface, canvas, tasks, cleanup, page, zoom, d,
                                    scroll, refs, ctx))
       ELSE UNCHANGED <<canvas, tasks, cleanup>>
    /\ UNCHANGED <<surface, page, bouncyZoom, zoom, mounted, scroll, refs, uncaught,
                   clampVars, geomVars, uiVars>>

\* the background prop (or the page proxy) changed
BackgroundChange(ctx) ==
    /\ mounted
    /\ Len(tasks) < MaxRenders
    /\ Effected(EffectRerun(surface, canvas, tasks, cleanup, page, zoom, dpr,
                            scroll, refs, ctx))
    /\ UNCHANGED <<surface, page, bouncyZoom, zoom, dpr, mounted, scroll, refs,
                   uncaught, clampVars, geomVars, uiVars>>

\* a ref of the detail hook gets its element
AttachRef(r) ==
    /\ surface = "detail"
    /\ r \notin refs
    /\ refs' = refs \cup {r}
    /\ UNCHANGED <<surface, page, bouncyZoom, zoom, dpr, mounted, scroll, canvas,
                   tasks, cleanup, uncaught, clampVars, geomVars, uiVars>>

\* the scroll container scrolls; handleScroll bumps scrollTick when the
\* listener is attached
Scroll(t) ==
    /\ surface = "detail"
    /\ t # scroll.top
    /\ scroll' = [scroll EXCEPT !.top = t,
                    !.dirty = @ \/ (mounted /\ "viewport" \in refs)]
    /\ UNCHANGED <<surface, page, bouncyZoom, zoom, dpr, mounted, refs, canvas,
                   tasks, cleanup, uncaught, clampVars, geomVars, uiVars>>

\* useDebounce(scrollTick, 20) delivers the tick: the detail effect runs again
ScrollDebounced(ctx) ==
    /\ mounted
    /\ scroll.dirty
    /\ Len(tasks) < MaxRenders
    /\ scroll' = [scroll EXCEPT !.dirty = FALSE]
    /\ Effected(EffectRerun(surface, canvas, tasks, cleanup, page, zoom, dpr,
                            [scroll EXCEPT !.dirty = FALSE], refs, ctx))
    /\ UNCHANGED <<surface, page, bouncyZoom, zoom, dpr, mounted, refs, uncaught,
                   clampVars, geomVars, uiVars>>

\* the engine paints part of a running operation's output on the surface
TaskDraw(i) ==
    /\ tasks[i].state = "running"
    /\ canvas' = [canvas EXCEPT !.frame = i, !.complete = FALSE]
    /\ canvas' # canvas
    /\ UNCHANGED <<surface, page, bouncyZoom, zoom, dpr, mounted, scroll, refs,
                   tasks, cleanup, uncaught, clampVars, geomVars, uiVars>>

\* a running operation completes: its frame is on the surface, its promise
\* resolves
TaskFinish(i) ==
    /\ tasks[i].state = "running"
    /\ canvas' = [canvas EXCEPT !.frame = i, !.complete = TRUE]
    /\ tasks' = [tasks EXCEPT ![i].state = "finished"]
    /\ UNCHANGED <<surface, page, bouncyZoom, zoom, dpr, mounted, scroll, refs,
                   cleanup, uncaught, clampVars, geomVars, uiVars>>

\* a running operation fails: its promise rejects and the catch handler runs
TaskFail(i, name) ==
    /\ tasks[i].state = "running"
    /\ tasks' = [tasks EXCEPT ![i] = [state |-> "failed", error |-> name,
                                      handled |-> CatchHandler(name)]]
    /\ uncaught' = IF CatchHandler(name) = "rethrown" THEN uncaught \cup {i}
                   ELSE uncaught
    /\ UNCHANGED <<surface, page, bouncyZoom, zoom, dpr, mounted, scroll, refs,
                   canvas, cleanup, clampVars, geomVars, uiVars>>

NextRaster ==
    \/ \E ctx \in BOOLEAN : Mount(ctx)
    \/ Unmount
    \/ \E z \in ZoomLevels : SetZoom(z)
    \/ \E ctx \in BOOLEAN : ZoomDebounced(ctx)
    \/ \E d \in DprLevels, ctx \in BOOLEAN : DprChange(d, ctx)
    \/ \E ctx \in BOOLEAN : BackgroundChange(ctx)
    \/ \E r \in {"viewport", "pageDom"} : AttachRef(r)
    \/ \E t \in ScrollTops : Scroll(t)
    \/ \E ctx \in BOOLEAN : ScrollDebounced(ctx)
    \/ \E i \in DOMAIN tasks : TaskDraw(i)
    \/ \E i \in DOMAIN tasks : TaskFinish(i)
    \/ \E i \in DOMAIN tasks, name \in FailureNames : TaskFail(i, name)

InitRasterSpec == InitRaster /\ ClampIdle /\ GeomIdle /\ UiIdle

SpecRaster == InitRasterSpec /\ [][NextRaster]_vars

\* ------------------------------------------------------------------------
\* Properties of the raster pipeline
\* ------------------------------------------------------------------------
Running == { i \in DOMAIN tasks : tasks[i].state = "running" }

\* C1: at every moment at most one render operation of the surface is in
\* flight and not cancelled, and it is the one issued last: every effect run
\* cancelled its predecessor before it issued its own request.
C1_AtMostOneInFlight ==
    /\ Cardinality(Running) <= 1
    /\ \A i \in Running : i = Len(tasks) /\ mounted /\ cleanup = i

C1_Witness ==
    /\ Len(tasks) >= 2
    /\ tasks[Len(tasks) - 1].state = "cancelled"
    /\ tasks[Len(tasks)].state = "running"

\* C2: in the step that issues a new request, an operation still pending
\* settles as cancelled; a cancelled operation never changes again, and the
\* surface is only ever painted by the operation issued last, which is not
\* cancelled.
C2_CancellationExclusive ==
    [][ /\ \A i \in DOMAIN tasks :
             /\ (Len(tasks') > Len(tasks) /\ tasks[i].state = "running")
                    => tasks'[i].state = "cancelled"
             /\ tasks[i].state = "cancelled" => tasks'[i] = tasks[i]
        /\ (canvas' # canvas /\ canvas'.frame # 0)
              => /\ canvas'.frame = Len(tasks')
                 /\ tasks'[canvas'.frame].state \in {"running", "finished"}
      ]_vars

C2_Witness ==
    /\ Len(tasks) = 2
    /\ tasks[1].state = "cancelled"
    /\ tasks[2].state = "finished"
    /\ canvas.frame = 2
    /\ canvas.complete

\* C3: once the layer is unmounted no render operation of its surface is
\* still running.
C3_UnmountCancels ==
    ~mounted => Running = {}

\* the layer is unmounted and the operation its last effect run issued was
\* cancelled
C3_Witness ==
    /\ ~mounted
    /\ cleanup # 0
    /\ tasks[cleanup].state = "cancelled"

\* C4: a render operation that settled as cancelled was swallowed by the
\* catch handler and is no uncaught error; one that settled with another
\* failure was re-thrown; nothing else reaches the handler.
C4_CancelSwallowedFailureRethrown ==
    \A i \in DOMAIN tasks :
        /\ tasks[i].state = "cancelled"
              => tasks[i].handled = "swallowed" /\ i \notin uncaught
        /\ tasks[i].state = "failed"
              => tasks[i].handled = "rethrown" /\ i \in uncaught
        /\ tasks[i].state \in {"running", "finished"}
              => tasks[i].handled = "none" /\ i \notin uncaught

C4_Witness ==
    \E i, j \in DOMAIN tasks :
        /\ tasks[i].state = "cancelled"
        /\ tasks[j].state = "failed"

\* C5: the base canvas never exceeds the raster limits.
C5_BaseCanvasWithinLimits ==
    (surface = "base" /\ canvas.present)
        => /\ canvas.width * canvas.height <= MAX_CANVAS_PIXELS
           /\ canvas.width <= MAX_CANVAS_DIMENSION
           /\ canvas.height <= MAX_CANVAS_DIMENSION

\* ------------------------------------------------------------------------
\* clampScaleForPage as a function under test
\* ------------------------------------------------------------------------
RasterIdle ==
    /\ surface = "base"
    /\ page = [width |-> 1000, height |-> 1000]
    /\ zoom = RInt(1)
    /\ dpr = 1
    /\ mounted = FALSE
    /\ scroll = [left |-> 0, top |-> 0, dirty |-> FALSE]
    /\ refs = {}
    /\ canvas = BlankCanvas
    /\ tasks = <<>>
    /\ cleanup = 0
    /\ uncaught = {}

InitClamp ==
    /\ RasterIdle
    /\ bouncyZoom = RInt(1)
    /\ GeomIdle
    /\ UiIdle
    /\ \E s \in ClampScales, p \in ClampPages :
          clampIn = [scale |-> s, width |-> p[1], height |-> p[2]]
    /\ clampOut = None

ClampApply ==
    /\ clampOut = None
    /\ clampOut' = clampScaleForPage(clampIn.scale, clampIn.width, clampIn.height)
    /\ UNCHANGED <<clampIn, rasterVars, geomVars, uiVars>>

NextClamp == ClampApply

SpecClamp == InitClamp /\ [][NextClamp]_vars

\* the scale t keeps a w x h page within the three raster limits
FitsLimits(t, w, h) ==
    /\ RLe(RMul(t, RInt(w)), RInt(MAX_CANVAS_DIMENSION))
    /\ RLe(RMul(t, RInt(h)), RInt(MAX_CANVAS_DIMENSION))
    /\ RLe(RMul(RMul(t, RInt(w)), RMul(t, RInt(h))), RInt(MAX_CANVAS_PIXELS))

Unit == 8 * 5

MERGE_THRESHOLD == 2

\* the zoom values of the store while a selection is extracted
SelectionZooms == { RInt(1), RInt(2) }

Min2(a, b) == IF a <= b THEN a ELSE b

Max2(a, b) == IF a >= b THEN a ELSE b

\* a connection test that takes a gap of exactly the threshold as too wide
shouldMergeRectsStrict(rect1, rect2) ==
    LET verticalOverlap ==
            ~(\/ rect1.top > rect2.top + rect2.height
              \/ rect2.top > rect1.top + rect1.height)
        horizontallyConnected ==
            \/ Abs(rect1.left + rect1.width - rect2.left) < MERGE_THRESHOLD * Unit
            \/ Abs(rect2.left + rect2.width - rect1.left) < MERGE_THRESHOLD * Unit
            \/ /\ rect1.left < rect2.left + rect2.width
               /\ rect2.left < rect1.left + rect1.width
    IN  verticalOverlap /\ horizontallyConnected

shouldMergeRects(rect1, rect2) ==
    LET verticalOverlap ==
            ~(\/ rect1.top > rect2.top + rect2.height
              \/ rect2.top > rect1.top + rect1.height)
        horizontallyConnected ==
            \/ Abs(rect1.left + rect1.width - rect2.left) <= MERGE_THRESHOLD * Unit
            \/ Abs(rect2.left + rect2.width - rect1.left) <= MERGE_THRESHOLD * Unit
            \/ /\ rect1.left < rect2.left + rect2.width
               /\ rect2.left < rect1.left + rect1.width
    IN  verticalOverlap /\ horizontallyConnected

doRectsOverlap(rect1, rect2) ==
    LET horizontalOverlap ==
            /\ rect1.left < rect2.left + rect2.width
            /\ rect2.left < rect1.left + rect1.width
        verticalOverlap ==
            /\ rect1.top < rect2.top + rect2.height
            /\ rect2.top < rect1.top + rect1.height
        closeEnough == shouldMergeRects(rect1, rect2)
    IN  (horizontalOverlap /\ verticalOverlap) \/ closeEnough

\* the bounding box of a list of rects, started from acc
RECURSIVE BoundsOf(_, _, _)
BoundsOf(rects, k, acc) ==
    IF k > Len(rects) THEN acc
    ELSE BoundsOf(rects, k + 1,
                  [minLeft |-> Min2(acc.minLeft, rects[k].left),
                   minTop |-> Min2(acc.minTop, rects[k].top),
                   maxRight |-> Max2(acc.maxRight, rects[k].left + rects[k].width),
                   maxBottom |-> Max2(acc.maxBottom, rects[k].top + rects[k].height)])

\* a merge that keeps only the group's first rect
mergeRectGroupFirst(rects) == rects[1]

mergeRectGroup(rects) ==
    IF Len(rects) = 1 THEN rects[1]
    ELSE LET firstRect == rects[1]
             b == BoundsOf(rects, 1,
                           [minLeft |-> firstRect.left, minTop |-> firstRect.top,
                            maxRight |-> firstRect.left + firstRect.width,
                            maxBottom |-> firstRect.top + firstRect.height])
         IN  [left |-> b.minLeft, top |-> b.minTop,
              width |-> b.maxRight - b.minLeft,
              height |-> b.maxBottom - b.minTop,
              pageNumber |-> firstRect.pageNumber]

\* one pass of the inner for loop: each unvisited rect that overlaps a rect of
\* the growing group joins it
RECURSIVE ScanPass(_, _, _)
ScanPass(rects, j, st) ==
    IF j > Len(rects) THEN st
    ELSE IF j \in st.visited THEN ScanPass(rects, j + 1, st)
    ELSE IF \E k \in DOMAIN st.group : doRectsOverlap(st.group[k], rects[j])
    THEN ScanPass(rects, j + 1,
                  [visited |-> st.visited \cup {j},
                   group |-> Append(st.group, rects[j]), foundNew |-> TRUE])
    ELSE ScanPass(rects, j + 1, st)

\* while (foundNew)
RECURSIVE GrowGroup(_, _)
GrowGroup(rects, st) ==
    LET after == ScanPass(rects, 1, [st EXCEPT !.foundNew = FALSE])
    IN  IF after.foundNew THEN GrowGroup(rects, after) ELSE after

RECURSIVE ConsolidateFrom(_, _, _, _)
ConsolidateFrom(rects, i, visited, result) ==
    IF i > Len(rects) THEN result
    ELSE IF i \in visited THEN ConsolidateFrom(rects, i + 1, visited, result)
    ELSE LET grown == GrowGroup(rects, [visited |-> visited \cup {i},
                                        group |-> <<rects[i]>>, foundNew |-> TRUE])
         IN  ConsolidateFrom(rects, i + 1, grown.visited,
                             Append(result, mergeRectGroup(grown.group)))

consolidateRects(rects) ==
    IF Len(rects) <= 1 THEN rects
    ELSE ConsolidateFrom(rects, 1, {}, <<>>)

\* ------------------------------------------------------------------------
\* The page text layers on screen, and the DOM queries of the extraction
\* ------------------------------------------------------------------------
PageNumbers == {1, 2}

\* textLayer.getBoundingClientRect() of page p: the pages are stacked, each
\* scaled by the zoom
LayerRect(p, z) ==
    LET scaledHeight == RFloor(RMul(RInt(60), z))
    IN  [left |-> 10, top |-> 10 + (p - 1) * (scaledHeight + 10),
         width |-> RFloor(RMul(RInt(100), z)), height |-> scaledHeight]

\* document.elementFromPoint at (x2 / 2, y2 / 2), then closest(".textLayer"):
\* -1 no element (outside the window), 0 an element outside every text
\* layer, p the text layer of page p
ElementFromPoint(x2, y2, z) ==
    LET under == { p \in PageNumbers :
                     LET lr == LayerRect(p, z)
                     IN  /\ 2 * lr.left <= x2 /\ x2 < 2 * (lr.left + lr.width)
                         /\ 2 * lr.top <= y2 /\ y2 < 2 * (lr.top + lr.height) }
    IN  IF ~(0 <= x2 /\ x2 < 2 * 300 /\ 0 <= y2 /\ y2 < 2 * 300) THEN -1
        ELSE IF under # {} THEN CHOOSE p \in under : TRUE
        ELSE 0

\* a client length over the zoom, in page units
ToPage(c, z) == RFloor(RDiv(RInt(c * Unit), z))

\* rect.width > 2 && rect.height > 2
NotTiny(cr) == cr.width > 2 /\ cr.height > 2

\* the page-local rect of a client rect resolved to page p
ToHighlightRect(cr, p, z) ==
    LET lr == LayerRect(p, z)
    IN  [width |-> ToPage(cr.width, z), height |-> ToPage(cr.height, z),
         top |-> ToPage(cr.top - lr.top, z), left |-> ToPage(cr.left - lr.left, z),
         pageNumber |-> p]

\* a Map<number, HighlightRect[]> as its entries in insertion order
MapPush(map, p, r) ==
    IF \E i \in DOMAIN map : map[i].page = p
    THEN [i \in DOMAIN map |->
            IF map[i].page = p THEN [map[i] EXCEPT !.rects = Append(@, r)]
            ELSE map[i]]
    ELSE Append(map, [page |-> p, rects |-> <<r>>])

\* Array.prototype.sort((a, b) => a.pageNumber - b.pageNumber): stable
RECURSIVE SortByPage(_)
SortByPage(rects) ==
    IF rects = <<>> THEN <<>>
    ELSE LET lo == CHOOSE p \in { rects[i].pageNumber : i \in DOMAIN rects } :
                      \A i \in DOMAIN rects : p <= rects[i].pageNumber
             IsLo(r) == r.pageNumber = lo
             NotLo(r) == r.pageNumber # lo
         IN  SelectSeq(rects, IsLo) \o SortByPage(SelectSeq(rects, NotLo))

\* ------------------------------------------------------------------------
\* getDimension
\* ------------------------------------------------------------------------
Undefined == [undefined |-> TRUE]

\* clientRects.forEach of getDimension: the text layer map
RECURSIVE DimensionMap(_, _, _, _)
DimensionMap(crs, k, z, map) ==
    IF k > Len(crs) THEN map
    ELSE LET cr == crs[k]
             textLayer == ElementFromPoint(2 * (cr.left + 1), 2 * cr.top + cr.height, z)
         IN  IF textLayer <= 0 THEN DimensionMap(crs, k + 1, z, map)
             ELSE DimensionMap(crs, k + 1, z,
                               MapPush(map, textLayer, ToHighlightRect(cr, textLayer, z)))

\* textLayerMap.forEach: the consolidated rects of every page, in map order
RECURSIVE DimensionHighlights(_, _)
DimensionHighlights(map, k) ==
    IF k > Len(map) THEN <<>>
    ELSE consolidateRects(map[k].rects) \o DimensionHighlights(map, k + 1)

getDimension(sel, z) ==
    IF sel.kind # "range" THEN Undefined
    ELSE LET clientRects == SelectSeq(sel.rects, NotTiny)
             textLayerMap == DimensionMap(clientRects, 1, z, <<>>)
         IN  [highlights |-> SortByPage(DimensionHighlights(textLayerMap, 1)),
              isCollapsed |-> FALSE]

\* ------------------------------------------------------------------------
\* Array.prototype.sort with the comparators of consolidateHighlightRects
\* and consolidateUnderlines
\* ------------------------------------------------------------------------
\* the comparator's result for (a, b); tol is the top tolerance (2 for
\* highlights, 1 for underlines)
Compare(tol, a, b) ==
    LET pageCompare == a.pageNumber - b.pageNumber
        topDiff == a.top - b.top
    IN  IF pageCompare # 0 THEN pageCompare
        ELSE IF Abs(topDiff) < tol * Unit THEN a.left - b.left
        ELSE topDiff

\* ECMAScript's consistent comparator, on the elements of rects
ConsistentComparator(tol, rects) ==
    LET S == { rects[i] : i \in DOMAIN rects }
        v == [a \in S, b \in S |-> Compare(tol, a, b)]
    IN  \A a, b, c \in S :
            /\ (v[a, b] = 0 /\ v[b, c] = 0) => v[a, c] = 0
            /\ (v[a, b] < 0 /\ v[b, c] < 0) => v[a, c] < 0
            /\ (v[a, b] > 0 /\ v[b, c] > 0) => v[a, c] > 0

\* the stable sort under a consistent comparator
RECURSIVE StableSort(_, _, _, _)
StableSort(tol, rects, k, sorted) ==
    IF k > Len(rects) THEN sorted
    ELSE LET x == rects[k]
             pos == Cardinality({ i \in DOMAIN sorted : Compare(tol, sorted[i], x) <= 0 })
         IN  StableSort(tol, rects, k + 1,
                        SubSeq(sorted, 1, pos) \o <<x>> \o SubSeq(sorted, pos + 1, Len(sorted)))

\* the orders sort may leave: the stable sorted order, or, when the
\* comparator is not consistent on the elements, an implementation-defined
\* order
SortOutcomes(tol, rects) ==
    IF ConsistentComparator(tol, rects) THEN { StableSort(tol, rects, 1, <<>>) }
    ELSE { [i \in DOMAIN rects |-> rects[f[i]]] : f \in Permutations(DOMAIN rects) }

\* ------------------------------------------------------------------------
\* consolidateHighlightRects
\* ------------------------------------------------------------------------
HighlightsConnected(current, next) ==
    LET samePageAndLine ==
            /\ current.pageNumber = next.pageNumber
            /\ 2 * Abs(current.top - next.top) < Max2(current.height, next.height)
    IN  /\ samePageAndLine
        /\ \/ Abs(current.left + current.width - next.left) <= MERGE_THRESHOLD * Unit
           \/ Abs(next.left + next.width - current.left) <= MERGE_THRESHOLD * Unit
           \/ /\ current.left < next.left + next.width
              /\ next.left < current.left + current.width
           \/ 5 * Abs(current.left + current.width - next.left) <= current.height

MergeHighlights(current, next) ==
    LET newLeft == Min2(current.left, next.left)
        newRight == Max2(current.left + current.width, next.left + next.width)
        newTop == Min2(current.top, next.top)
        newBottom == Max2(current.top + current.height, next.top + next.height)
    IN  [left |-> newLeft, top |-> newTop, width |-> newRight - newLeft,
         height |-> newBottom - newTop, pageNumber |-> current.pageNumber]

\* the for loop over the sorted rects
RECURSIVE HighlightWalk(_, _, _, _)
HighlightWalk(sorted, i, current, consolidated) ==
    IF i > Len(sorted) THEN Append(consolidated, current)
    ELSE IF HighlightsConnected(current, sorted[i])
    THEN HighlightWalk(sorted, i + 1, MergeHighlights(current, sorted[i]), consolidated)
    ELSE HighlightWalk(sorted, i + 1, sorted[i], Append(consolidated, current))

\* the results consolidateHighlightRects can return, one per order its sort
\* may leave
consolidateHighlightRects(rects) ==
    IF Len(rects) <= 1 THEN { rects }
    ELSE { HighlightWalk(sorted, 2, sorted[1], <<>>) : sorted \in SortOutcomes(2, rects) }

\* ------------------------------------------------------------------------
\* consolidateUnderlines
\* ------------------------------------------------------------------------
\* a connection test that leaves out the page comparison
UnderlinesConnectedAnyPage(current, next) ==
    /\ Abs(current.top - next.top) < 1 * Unit
    /\ \/ Abs(current.left + current.width - next.left) <= MERGE_THRESHOLD * Unit
       \/ /\ current.left < next.left + next.width
          /\ next.left < current.left + current.width

UnderlinesConnected(current, next) ==
    LET samePageAndLine ==
            /\ current.pageNumber = next.pageNumber
            /\ Abs(current.top - next.top) < 1 * Unit
    IN  /\ samePageAndLine
        /\ \/ Abs(current.left + current.width - next.left) <= MERGE_THRESHOLD * Unit
           \/ /\ current.left < next.left + next.width
              /\ next.left < current.left + current.width

MergeUnderlines(current, next) ==
    LET newWidth == Max2(current.left + current.width, next.left + next.width)
                        - Min2(current.left, next.left)
    IN  [current EXCEPT !.left = Min2(current.left, next.left), !.width = newWidth]

RECURSIVE UnderlineWalk(_, _, _, _)
UnderlineWalk(sorted, i, current, consolidated) ==
    IF i > Len(sorted) THEN Append(consolidated, current)
    ELSE IF UnderlinesConnected(current, sorted[i])
    THEN UnderlineWalk(sorted, i + 1, MergeUnderlines(current, sorted[i]), consolidated)
    ELSE UnderlineWalk(sorted, i + 1, sorted[i], Append(consolidated, current))

consolidateUnderlines(underlines) ==
    IF Len(underlines) <= 1 THEN { underlines }
    ELSE { UnderlineWalk(sorted, 2, sorted[1], <<>>) : sorted \in SortOutcomes(1, underlines) }

\* ------------------------------------------------------------------------
\* getAnnotationDimension
\* ------------------------------------------------------------------------
\* the element found for a client rect: the five probes, each tried only
\* when the one before found no element
RECURSIVE FirstElement(_, _, _)
FirstElement(points, k, z) ==
    LET element == ElementFromPoint(points[k][1], points[k][2], z)
    IN  IF element # -1 \/ k = Len(points) THEN element
        ELSE FirstElement(points, k + 1, z)

ProbeElement(cr, z) ==
    LET midY == 2 * cr.top + cr.height
        midX == 2 * cr.left + cr.width
        right == cr.left + cr.width
        bottom == cr.top + cr.height
    IN  FirstElement(<< <<2 * (cr.left + 1), midY>>, <<midX, midY>>,
                        <<2 * (right - 1), midY>>, <<midX, 2 * (cr.top + 1)>>,
                        <<midX, 2 * (bottom - 1)>> >>, 1, z)

\* the underline rect of a client rect: 2px thick at 85% of its height
ToUnderlineRect(cr, p, z) ==
    LET lr == LayerRect(p, z)
        baselineOffset == (17 * cr.height * Unit) \div 20
    IN  [width |-> ToPage(cr.width, z), height |-> ToPage(2, z),
         top |-> RFloor(RDiv(RInt((cr.top - lr.top) * Unit + baselineOffset), z)),
         left |-> ToPage(cr.left - lr.left, z), pageNumber |-> p]

\* clientRects.forEach of getAnnotationDimension: both text layer maps
RECURSIVE AnnotationMaps(_, _, _, _)
AnnotationMaps(crs, k, z, maps) ==
    IF k > Len(crs) THEN maps
    ELSE LET cr == crs[k]
             textLayer == ProbeElement(cr, z)
             shouldCreateUnderline == ~cr.sup
         IN  IF textLayer <= 0 THEN AnnotationMaps(crs, k + 1, z, maps)
             ELSE AnnotationMaps(crs, k + 1, z,
                    [highlight |-> MapPush(maps.highlight, textLayer,
                                           ToHighlightRect(cr, textLayer, z)),
                     underline |-> IF shouldCreateUnderline
                                   THEN MapPush(maps.underline, textLayer,
                                                ToUnderlineRect(cr, textLayer, z))
                                   ELSE maps.underline])

\* textLayerMapHighlight.forEach: the lists highlightRects can end as
RECURSIVE AnnotationHighlights(_, _)
AnnotationHighlights(map, k) ==
    IF k > Len(map) THEN { <<>> }
    ELSE LET heads == IF Len(map[k].rects) = 1 THEN { map[k].rects }
                      ELSE consolidateHighlightRects(map[k].rects)
         IN  { h \o t : h \in heads, t \in AnnotationHighlights(map, k + 1) }

\* groupRectsByLine: a rect joins the first group whose first rect's centre
\* is within VERTICAL_TOLERANCE (3) of its own
RECURSIVE groupRectsByLine(_, _, _)
groupRectsByLine(rects, k, groups) ==
    IF k > Len(rects) THEN groups
    ELSE LET rect == rects[k]
             Fits(g) == Abs((2 * rect.top + rect.height)
                            - (2 * groups[g][1].top + groups[g][1].height))
                           <= 2 * 3 * Unit
         IN  IF \E g \in DOMAIN groups : Fits(g)
             THEN LET g0 == CHOOSE g \in DOMAIN groups :
                                /\ Fits(g)
                                /\ \A g1 \in DOMAIN groups : Fits(g1) => g <= g1
                  IN  groupRectsByLine(rects, k + 1,
                                       [groups EXCEPT ![g0] = Append(@, rect)])
             ELSE groupRectsByLine(rects, k + 1, Append(groups, <<rect>>))

\* group.sort((a, b) => a.left - b.left): stable
RECURSIVE SortByLeft(_, _, _)
SortByLeft(rects, k, sorted) ==
    IF k > Len(rects) THEN sorted
    ELSE LET pos == Cardinality({ i \in DOMAIN sorted : sorted[i].left <= rects[k].left })
         IN  SortByLeft(rects, k + 1,
                        SubSeq(sorted, 1, pos) \o <<rects[k]>>
                            \o SubSeq(sorted, pos + 1, Len(sorted)))

\* the inner while: the last index of the run of adjacent rects from endIndex
RECURSIVE RunEnd(_, _)
RunEnd(group, endIndex) ==
    IF endIndex + 1 > Len(group) THEN endIndex
    ELSE LET currentRect == group[endIndex]
             nextRect == group[endIndex + 1]
             gap == nextRect.left - (currentRect.left + currentRect.width)
         IN  IF 10 * gap <= Max2(10 * MERGE_THRESHOLD * Unit, 3 * currentRect.height)
             THEN RunEnd(group, endIndex + 1)
             ELSE endIndex

\* the outer while: one underline per run
RECURSIVE LineRects(_, _)
LineRects(group, i) ==
    IF i > Len(group) THEN <<>>
    ELSE LET startRect == group[i]
             endIndex == RunEnd(group, i)
             endRect == group[endIndex]
             lineRect == [width |-> endRect.left + endRect.width - startRect.left,
                          height |-> (3 * Unit) \div 2,
                          top |-> startRect.top, left |-> startRect.left,
                          pageNumber |-> startRect.pageNumber]
         IN  <<lineRect>> \o LineRects(group, endIndex + 1)

RECURSIVE GroupsLineRects(_, _)
GroupsLineRects(groups, g) ==
    IF g > Len(groups) THEN <<>>
    ELSE LineRects(SortByLeft(groups[g], 1, <<>>), 1) \o GroupsLineRects(groups, g + 1)

\* textLayerMapUnderline.forEach
RECURSIVE AnnotationUnderlines(_, _)
AnnotationUnderlines(map, k) ==
    IF k > Len(map) THEN <<>>
    ELSE GroupsLineRects(groupRectsByLine(map[k].rects, 1, <<>>), 1)
            \o AnnotationUnderlines(map, k + 1)

\* a fallback that puts the underline at the bottom edge of the highlight
FallbackUnderlinesAtBottom(highlightRects) ==
    [i \in DOMAIN highlightRects |->
        [width |-> highlightRects[i].width, height |-> (3 * Unit) \div 2,
         top |-> highlightRects[i].top + highlightRects[i].height,
         left |-> highlightRects[i].left,
         pageNumber |-> highlightRects[i].pageNumber]]

\* the fallback: an underline at 85% of the height of each highlight
FallbackUnderlines(highlightRects) ==
    [i \in DOMAIN highlightRects |->
        [width |-> highlightRects[i].width, height |-> (3 * Unit) \div 2,
         top |-> highlightRects[i].top + (17 * highlightRects[i].height) \div 20,
         left |-> highlightRects[i].left,
         pageNumber |-> highlightRects[i].pageNumber]]

\* the results getAnnotationDimension can return
getAnnotationDimension(sel, z) ==
    IF sel.kind # "range" THEN { Undefined }
    ELSE LET clientRects == SelectSeq(sel.rects, NotTiny)
             maps == AnnotationMaps(clientRects, 1, z,
                                    [highlight |-> <<>>, underline |-> <<>>])
             lined == AnnotationUnderlines(maps.underline, 1)
             UnderlineRects(highlightRects) ==
                 IF Len(lined) = 0 /\ Len(highlightRects) > 0
                 THEN FallbackUnderlines(highlightRects)
                 ELSE lined
         IN  UNION { { [highlights |-> SortByPage(highlightRects),
                        underlines |-> SortByPage(u),
                        isCollapsed |-> FALSE] :
                       u \in consolidateUnderlines(UnderlineRects(highlightRects)) } :
                     highlightRects \in AnnotationHighlights(maps.highlight, 1) }

\* ------------------------------------------------------------------------
\* Selection extraction as a state machine: a selection is made, then
\* getDimension and getAnnotationDimension are called on it
\* ------------------------------------------------------------------------
\* client rects a selection range has at most
MaxFrags == 3

ClientRect(l, t, w, h) == [left |-> l, top |-> t, width |-> w, height |-> h, sup |-> FALSE]

\* the client rects range.getClientRects() is drawn from
FragChoices ==
    { ClientRect(10, 10, 50, 10), ClientRect(62, 10, 30, 10), ClientRect(70, 10, 30, 10),
      ClientRect(10, 10, 4, 30), ClientRect(30, 30, 4, 4),
      ClientRect(30, 11, 10, 10), ClientRect(10, 12, 10, 10),
      ClientRect(10, 80, 50, 10), ClientRect(62, 80, 30, 10),
      ClientRect(10, 150, 50, 10), ClientRect(10, 10, 2, 10),
      ClientRect(-5, 20, 40, 10),
      [left |-> 62, top |-> 10, width |-> 12, height |-> 5, sup |-> TRUE] }

InitGeom ==
    /\ RasterIdle
    /\ ClampIdle
    /\ GeomIdle
    /\ UiIdle
    /\ bouncyZoom \in SelectionZooms

\* the user extends the selection by one more client rect
Select(cr) ==
    /\ dim = None /\ annDim = None
    /\ Len(selection.rects) < MaxFrags
    /\ selection' = [kind |-> "range", rects |-> Append(selection.rects, cr)]
    /\ UNCHANGED <<dim, annDim, rasterVars, clampVars, uiVars>>

\* the selection collapses to a caret
Collapse ==
    /\ dim = None /\ annDim = None
    /\ selection.kind = "range"
    /\ selection' = [kind |-> "collapsed", rects |-> <<>>]
    /\ UNCHANGED <<dim, annDim, rasterVars, clampVars, uiVars>>

GetDimension ==
    /\ dim = None
    /\ dim' = getDimension(selection, bouncyZoom)
    /\ UNCHANGED <<selection, annDim, rasterVars, clampVars, uiVars>>

GetAnnotationDimension ==
    /\ annDim = None
    /\ annDim' \in getAnnotationDimension(selection, bouncyZoom)
    /\ UNCHANGED <<selection, dim, rasterVars, clampVars, uiVars>>

NextGeom ==
    \/ \E cr \in FragChoices : Select(cr)
    \/ Collapse
    \/ GetDimension
    \/ GetAnnotationDimension

SpecGeom == InitGeom /\ [][NextGeom]_vars

\* ------------------------------------------------------------------------
\* Properties of the selection extraction
\* ------------------------------------------------------------------------
SetOf(seq) == { seq[i] : i \in DOMAIN seq }

Computed(result) == result # None /\ result # Undefined

\* the page rects getDimension hands to consolidateRects
DimInputs ==
    LET map == DimensionMap(SelectSeq(selection.rects, NotTiny), 1, bouncyZoom, <<>>)
    IN  UNION { SetOf(map[k].rects) : k \in DOMAIN map }

AnnInputMaps ==
    AnnotationMaps(SelectSeq(selection.rects, NotTiny), 1, bouncyZoom,
                   [highlight |-> <<>>, underline |-> <<>>])

\* the page rects getAnnotationDimension hands to consolidateHighlightRects
AnnInputs == UNION { SetOf(AnnInputMaps.highlight[k].rects) : k \in DOMAIN AnnInputMaps.highlight }

\* the underline rects getAnnotationDimension groups into lines
AnnUnderlineInputs ==
    UNION { SetOf(AnnInputMaps.underline[k].rects) : k \in DOMAIN AnnInputMaps.underline }

Inside(r, o) ==
    /\ o.pageNumber = r.pageNumber
    /\ o.left <= r.left /\ r.left + r.width <= o.left + o.width
    /\ o.top <= r.top /\ r.top + r.height <= o.top + o.height

\* C8: consolidateRects is idempotent: applied to the consolidated rects of a
\* page in the result of getDimension, it returns the same set of rects.
C8_ConsolidateIdempotent ==
    Computed(dim) =>
        \A p \in PageNumbers :
            LET OnPage(r) == r.pageNumber = p
                consolidated == SelectSeq(dim.highlights, OnPage)
            IN  SetOf(consolidateRects(consolidated)) = SetOf(consolidated)

\* C9: every rect handed to consolidateRects by getDimension, and every rect
\* handed to consolidateHighlightRects by getAnnotationDimension, lies fully
\* inside a highlight of the result.
C9_Containment ==
    /\ Computed(dim) =>
          \A r \in DimInputs : \E o \in SetOf(dim.highlights) : Inside(r, o)
    /\ Computed(annDim) =>
          \A r \in AnnInputs : \E o \in SetOf(annDim.highlights) : Inside(r, o)

\* both results hold a highlight that grew over one of its inputs
C9_Witness ==
    /\ Computed(dim) /\ Computed(annDim)
    /\ \E r \in DimInputs : r \notin SetOf(dim.highlights)
    /\ \E r \in AnnInputs : r \notin SetOf(annDim.highlights)

\* the bounding box of a non-empty set of rects of page p
BoundingBox(S, p) ==
    LET minLeft == CHOOSE x \in { r.left : r \in S } : \A r \in S : x <= r.left
        minTop == CHOOSE y \in { r.top : r \in S } : \A r \in S : y <= r.top
        maxRight == CHOOSE x \in { r.left + r.width : r \in S } :
                        \A r \in S : r.left + r.width <= x
        maxBottom == CHOOSE y \in { r.top + r.height : r \in S } :
                        \A r \in S : r.top + r.height <= y
    IN  [left |-> minLeft, top |-> minTop, width |-> maxRight - minLeft,
         height |-> maxBottom - minTop, pageNumber |-> p]

\* o is the merge of fragments of its own page only
MergedFromOwnPage(o, inputs) ==
    \E S \in SUBSET { r \in inputs : r.pageNumber = o.pageNumber } :
        S # {} /\ o = BoundingBox(S, o.pageNumber)

\* the rects the underlines are made of: the underline rects of the
\* fragments, or with none of them the fallback underlines of the highlights
UnderlineSources ==
    IF AnnUnderlineInputs # {} THEN AnnUnderlineInputs
    ELSE SetOf(FallbackUnderlines(annDim.highlights))

\* the top and both ends of o are those of underline rects of its own page
UnderlineFromOwnPage(o) ==
    LET own == { u \in UnderlineSources : u.pageNumber = o.pageNumber }
    IN  /\ \E u \in own : o.top = u.top
        /\ \E u \in own : o.left = u.left
        /\ \E u \in own : o.left + o.width = u.left + u.width

\* C10: every highlight of getDimension and getAnnotationDimension is the
\* merge of fragments resolved to its own page, and every underline spans
\* underline rects of its own page: nothing is merged across pages.
C10_NoCrossPageMerge ==
    /\ Computed(dim) =>
          \A o \in SetOf(dim.highlights) : MergedFromOwnPage(o, DimInputs)
    /\ Computed(annDim) =>
          /\ \A o \in SetOf(annDim.highlights) : MergedFromOwnPage(o, AnnInputs)
          /\ \A o \in SetOf(annDim.underlines) : UnderlineFromOwnPage(o)

\* fragments of two pages that would connect on one page stay apart in the
\* highlights of both results and in the underlines
C10_Witness ==
    /\ Computed(dim) /\ Computed(annDim)
    /\ \E a, b \in SetOf(dim.highlights) :
          a.pageNumber # b.pageNumber /\ doRectsOverlap(a, b)
    /\ \E a, b \in SetOf(annDim.highlights) :
          a.pageNumber # b.pageNumber /\ HighlightsConnected([a EXCEPT !.pageNumber = b.pageNumber], b)
    /\ \E a, b \in SetOf(annDim.underlines) :
          a.pageNumber # b.pageNumber /\ UnderlinesConnectedAnyPage(a, b)

\* the interiors of two rects of one page intersect
InteriorsIntersect(a, b) ==
    /\ a.pageNumber = b.pageNumber
    /\ a.left < b.left + b.width /\ b.left < a.left + a.width
    /\ a.top < b.top + b.height /\ b.top < a.top + a.height

PairwiseDisjoint(rects) ==
    \A i, j \in DOMAIN rects : i # j => ~InteriorsIntersect(rects[i], rects[j])

\* C11: the highlights returned by getDimension and by getAnnotationDimension
\* are pairwise non-overlapping: no two of one page have intersecting interiors.
C11_HighlightsDisjoint ==
    /\ Computed(dim) => PairwiseDisjoint(dim.highlights)
    /\ Computed(annDim) => PairwiseDisjoint(annDim.highlights)

\* ------------------------------------------------------------------------
\* Extraction from a selection of two fragments of one line of page 1
\* ------------------------------------------------------------------------
\* the widest gap between the two fragments, in client px
MaxGap == 10

PairWidths == {20, 30, 50}

\* two client rects of one line, the second gap px right of the first
LinePair(w1, gap, w2) ==
    << ClientRect(10, 10, w1, 10), ClientRect(10 + w1 + gap, 10, w2, 10) >>

InitPair ==
    /\ RasterIdle
    /\ ClampIdle
    /\ UiIdle
    /\ bouncyZoom \in SelectionZooms
    /\ dim = None
    /\ annDim = None
    /\ \E gap \in 0..MaxGap, w1 \in PairWidths, w2 \in PairWidths, reversed \in BOOLEAN :
          LET pair == LinePair(w1, gap, w2)
          IN  selection = [kind |-> "range",
                           rects |-> IF reversed THEN <<pair[2], pair[1]>> ELSE pair]

NextPair ==
    \/ GetDimension
    \/ GetAnnotationDimension

SpecPair == InitPair /\ [][NextPair]_vars

\* the rects getDimension hands to consolidateRects for page 1, in order
PairInput ==
    LET map == DimensionMap(SelectSeq(selection.rects, NotTiny), 1, bouncyZoom, <<>>)
    IN  map[1].rects

\* the gap between the left rect and the right rect of the pair
PairGap ==
    LET a == PairInput[1]
        b == PairInput[2]
    IN  IF a.left <= b.left THEN b.left - (a.left + a.width)
        ELSE a.left - (b.left + b.width)

\* C12: two rects of one page with the same top and height and a gap g >= 0
\* come back from consolidateRects as their one bounding rect when
\* g <= MERGE_THRESHOLD, and as the two rects unmerged when g > MERGE_THRESHOLD.
C12_MergeThreshold ==
    (Computed(dim) /\ Len(PairInput) = 2
        /\ PairInput[1].top = PairInput[2].top
        /\ PairInput[1].height = PairInput[2].height
        /\ PairGap >= 0)
    => IF PairGap <= MERGE_THRESHOLD * Unit
       THEN dim.highlights = << BoundingBox(SetOf(PairInput), 1) >>
       ELSE dim.highlights = PairInput

\* the scenario: {left 0, w 50} and {left 52, w 30} have become {left 0, w 82}
C12_Witness ==
    /\ Computed(dim)
    /\ bouncyZoom = RInt(1)
    /\ selection.rects = LinePair(50, MERGE_THRESHOLD, 30)
    /\ dim.highlights = << [left |-> 0, top |-> 0, width |-> 82 * Unit,
                            height |-> 10 * Unit, pageNumber |-> 1] >>

\* the scenario with a gap of 10: the two rects have stayed two
C12_WitnessApart ==
    /\ Computed(dim)
    /\ bouncyZoom = RInt(1)
    /\ selection.rects = LinePair(50, MaxGap, 30)
    /\ Len(dim.highlights) = 2

\* ------------------------------------------------------------------------
\* The text selection manager (createTextSelectionManager)
\* ------------------------------------------------------------------------
\* a reset that leaves the selecting class on the text layer
resetKeepsSelecting(dom) ==
    [dom EXCEPT !.endOfContent = IF @ # "child" THEN "child" ELSE @,
                !.sized = FALSE]

\* reset(endDiv, textLayer), on the DOM state of one text layer div
reset(dom) ==
    [endOfContent |-> IF dom.endOfContent # "child" THEN "child" ELSE dom.endOfContent,
     sized |-> FALSE,
     selecting |-> FALSE]

\* textLayers.forEach(reset)
ResetAll == [l \in TextLayerDivs |-> IF l \in textLayers THEN reset(layerDom[l])
                                     ELSE layerDom[l]]

\* the ranges a selection can hold: each is the set of text layer divs it
\* intersects
SelectionRanges ==
    { <<>> } \cup { <<a>> : a \in SUBSET TextLayerDivs }
             \cup { <<a, b>> : a, b \in SUBSET TextLayerDivs }

\* document.getSelection(): null, or a selection of these ranges
SelectionChoices ==
    { NoSelection } \cup { [present |-> TRUE, ranges |-> r] : r \in SelectionRanges }

\* the text layer the anchor of the first range can lie in: one the range
\* intersects, or none (0)
AnchorLayers(sel) == {0} \cup (IF Len(sel.ranges) > 0 THEN sel.ranges[1] ELSE {})

\* what getComputedStyle can tell of -moz-user-select: the browser is the
\* same one all along
ComputedStyles == IF isFirefox = "undefined" THEN {"true", "false"} ELSE {isFirefox}

\* range.intersectsNode(textLayerDiv) for some range of the selection
Intersected(sel, l) == \E i \in DOMAIN sel.ranges : l \in sel.ranges[i]

\* what the try block of the selectionchange listener meets: the boundary
\* comparison throws, or the anchor has no insert target, or the anchor's
\* parent is the text layer ("child") or an element below it ("nested")
AnchorCases == {"throws", "noTarget", "child", "nested"}

\* the text layer rendered: bindMouseEvents(textContainer, endOfContent)
BindMouseEvents(l) ==
    /\ l \notin textLayers
    /\ textLayers' = textLayers \cup {l}
    /\ layerDom' = [layerDom EXCEPT ![l].endOfContent = "child", ![l].sized = FALSE]
    /\ listening' = TRUE
    /\ lastEvent' = "bind"
    /\ UNCHANGED <<isPointerDown, prevRange, isFirefox, docSelection>>
    /\ UNCHANGED <<rasterVars, clampVars, geomVars, storeVars, tipVars, hostVars>>

\* a cleanup that removes the container and leaves the listeners installed
CleanupKeepsListeners(l) ==
    /\ l \in textLayers
    /\ textLayers' = textLayers \ {l}
    /\ lastEvent' = "cleanup"
    /\ UNCHANGED <<layerDom, isPointerDown, listening, prevRange, isFirefox, docSelection>>
    /\ UNCHANGED <<rasterVars, clampVars, geomVars, storeVars, tipVars, hostVars>>

\* the effect cleanup: textContainer._cleanupTextSelection()
CleanupTextSelection(l) ==
    /\ l \in textLayers
    /\ textLayers' = textLayers \ {l}
    /\ listening' = (textLayers' # {})
    /\ lastEvent' = "cleanup"
    /\ UNCHANGED <<layerDom, isPointerDown, prevRange, isFirefox, docSelection>>
    /\ UNCHANGED <<rasterVars, clampVars, geomVars, storeVars, tipVars, hostVars>>

\* mousedown on a bound text layer div
HandleMouseDown(l) ==
    /\ l \in textLayers
    /\ layerDom' = [layerDom EXCEPT ![l].selecting = TRUE]
    /\ lastEvent' = "mousedown"
    /\ UNCHANGED <<textLayers, isPointerDown, listening, prevRange, isFirefox, docSelection>>
    /\ UNCHANGED <<rasterVars, clampVars, geomVars, storeVars, tipVars, hostVars>>

\* the other host variables, which the pointer events leave alone
hostRest == <<marker, persistence, renders>>

\* a pointerdown is dispatched; the listener runs while it is installed
PointerDown ==
    /\ pointerHeld' = TRUE
    /\ IF listening
       THEN /\ isPointerDown' = TRUE
            /\ lastEvent' = "pointerdown"
       ELSE UNCHANGED <<isPointerDown, lastEvent>>
    /\ UNCHANGED <<textLayers, layerDom, listening, prevRange, isFirefox, docSelection>>
    /\ UNCHANGED <<rasterVars, clampVars, geomVars, storeVars, tipVars, hostRest>>

\* a pointerup is dispatched
PointerUp ==
    /\ pointerHeld' = FALSE
    /\ IF listening
       THEN /\ isPointerDown' = FALSE
            /\ layerDom' = ResetAll
            /\ lastEvent' = "pointerup"
       ELSE UNCHANGED <<isPointerDown, layerDom, lastEvent>>
    /\ UNCHANGED <<textLayers, listening, prevRange, isFirefox, docSelection>>
    /\ UNCHANGED <<rasterVars, clampVars, geomVars, storeVars, tipVars, hostRest>>

\* the window loses the focus
Blur ==
    /\ pointerHeld' = FALSE
    /\ IF listening
       THEN /\ isPointerDown' = FALSE
            /\ layerDom' = ResetAll
            /\ lastEvent' = "blur"
       ELSE UNCHANGED <<isPointerDown, layerDom, lastEvent>>
    /\ UNCHANGED <<textLayers, listening, prevRange, isFirefox, docSelection>>
    /\ UNCHANGED <<rasterVars, clampVars, geomVars, storeVars, tipVars, hostRest>>

\* a key-up listener that resets whatever the pointer does
KeyUpAlways ==
    /\ listening
    /\ layerDom' = ResetAll
    /\ lastEvent' = "keyup"
    /\ UNCHANGED <<textLayers, isPointerDown, listening, prevRange, isFirefox, docSelection>>
    /\ UNCHANGED <<rasterVars, clampVars, geomVars, storeVars, tipVars, hostVars>>

KeyUp ==
    /\ listening
    /\ layerDom' = IF ~isPointerDown THEN ResetAll ELSE layerDom
    /\ lastEvent' = "keyup"
    /\ UNCHANGED <<textLayers, isPointerDown, listening, prevRange, isFirefox, docSelection>>
    /\ UNCHANGED <<rasterVars, clampVars, geomVars, storeVars, tipVars, hostVars>>

\* the sweep of the selectionchange listener
Sweep(sel) ==
    [l \in TextLayerDivs |->
        IF l \notin textLayers THEN layerDom[l]
        ELSE IF Intersected(sel, l) THEN [layerDom[l] EXCEPT !.selecting = TRUE]
        ELSE reset(layerDom[l])]

\* the try block: the end-of-content marker of the anchor's text layer takes
\* the layer's size and moves next to the anchor
MoveMarker(dom, anchorLayer, case) ==
    IF case = "throws" \/ anchorLayer \notin textLayers THEN dom
    ELSE [dom EXCEPT ![anchorLayer].sized = TRUE,
                     ![anchorLayer].endOfContent =
                         IF case = "noTarget" THEN @ ELSE case]

\* the selectionchange listener; sel is document.getSelection(), anchorLayer
\* the text layer the anchor of its first range lies in (0: none), firefox
\* what getComputedStyle tells when isFirefox is still undefined
SelectionChange(sel, anchorLayer, case, firefox) ==
    /\ listening
    /\ docSelection' = sel
    /\ lastEvent' = "selectionchange"
    /\ IF ~sel.present \/ Len(sel.ranges) = 0
       THEN /\ layerDom' = ResetAll
            /\ UNCHANGED <<isFirefox, prevRange>>
       ELSE LET nowFirefox == IF isFirefox = "undefined" /\ textLayers # {}
                              THEN firefox ELSE isFirefox
            IN  /\ isFirefox' = nowFirefox
                /\ IF nowFirefox = "true"
                   THEN /\ layerDom' = Sweep(sel)
                        /\ UNCHANGED prevRange
                   ELSE /\ layerDom' = MoveMarker(Sweep(sel), anchorLayer, case)
                        /\ prevRange' = IF case = "throws" THEN prevRange ELSE TRUE
    /\ UNCHANGED <<textLayers, isPointerDown, listening>>
    /\ UNCHANGED <<rasterVars, clampVars, geomVars, storeVars, tipVars, hostVars>>

InitText ==
    /\ RasterIdle
    /\ bouncyZoom = RInt(1)
    /\ ClampIdle
    /\ GeomIdle
    /\ UiIdle

NextText ==
    \/ \E l \in TextLayerDivs : BindMouseEvents(l)
    \/ \E l \in TextLayerDivs : CleanupTextSelection(l)
    \/ \E l \in TextLayerDivs : HandleMouseDown(l)
    \/ PointerDown
    \/ PointerUp
    \/ Blur
    \/ KeyUp
    \/ \E sel \in SelectionChoices, case \in AnchorCases :
          \E anchorLayer \in AnchorLayers(sel), firefox \in ComputedStyles :
             SelectionChange(sel, anchorLayer, case, firefox)

SpecText == InitText /\ [][NextText]_vars

\* ------------------------------------------------------------------------
\* Properties of the text selection manager
\* ------------------------------------------------------------------------
\* a text layer div as reset leaves it: the marker a child of the div, its
\* size cleared, the selecting class off
IsReset(dom) == dom.endOfContent = "child" /\ ~dom.sized /\ ~dom.selecting

\* C13: after a selectionchange, of the registered text layer divs exactly
\* those the selection intersects carry the selecting class and every other
\* one is reset; with no selection or no range every one is reset.
C13_SelectionSweep ==
    lastEvent = "selectionchange" =>
        \A l \in textLayers :
            IF docSelection.present /\ Intersected(docSelection, l)
            THEN layerDom[l].selecting
            ELSE IsReset(layerDom[l])

\* a selection of two ranges has left one registered div selecting, with
\* its marker moved and sized, and the other registered div reset
C13_Witness ==
    /\ lastEvent = "selectionchange"
    /\ textLayers = TextLayerDivs
    /\ docSelection.present /\ Len(docSelection.ranges) = 2
    /\ \E l \in textLayers :
          /\ Intersected(docSelection, l)
          /\ layerDom[l].selecting /\ layerDom[l].sized
          /\ layerDom[l].endOfContent = "nested"
    /\ \E l \in textLayers : ~Intersected(docSelection, l) /\ IsReset(layerDom[l])

\* C14: pointerup and blur clear the pointer-down flag and reset every
\* registered div; keyup resets every registered div when the pointer is not
\* down and changes no div when it is; pointerdown sets the flag.
C14_ResetEvents ==
    [][ /\ lastEvent' \in {"pointerup", "blur"} =>
              /\ ~isPointerDown'
              /\ \A l \in textLayers' : IsReset(layerDom'[l])
        /\ (lastEvent' = "keyup" /\ ~isPointerDown) =>
              \A l \in textLayers' : IsReset(layerDom'[l])
        /\ (lastEvent' = "keyup" /\ isPointerDown) => layerDom' = layerDom
        /\ lastEvent' = "pointerdown" => isPointerDown'
      ]_vars

\* a pointerup has reset both registered divs although the selection still
\* intersects one of them
C14_Witness ==
    /\ lastEvent = "pointerup"
    /\ ~isPointerDown
    /\ textLayers = TextLayerDivs
    /\ docSelection.present
    /\ \E l \in textLayers : Intersected(docSelection, l)
    /\ \A l \in textLayers : IsReset(layerDom[l])

\* ------------------------------------------------------------------------
\* The annotation store (useAnnotations)
\* ------------------------------------------------------------------------
\* records the store holds at most
MaxAnnotations == 3

AnnotationIds == {1, 2}

\* { ...annotation, ...updates }
Spread(annotation, updates) ==
    [f \in DOMAIN annotation \cup DOMAIN updates |->
        IF f \in DOMAIN updates THEN updates[f] ELSE annotation[f]]

\* an add that puts the record first
addAnnotationFirst(list, annotation) == <<annotation>> \o list

\* [...state.annotations, annotation]
addAnnotation(list, annotation) == list \o <<annotation>>

\* an update that merges the fields into every record
updateAnnotationAll(list, id, updates) ==
    [i \in DOMAIN list |-> Spread(list[i], updates)]

\* state.annotations.map(...)
RECURSIVE updateAnnotation(_, _, _)
updateAnnotation(list, id, updates) ==
    IF list = <<>> THEN <<>>
    ELSE << IF Head(list).id = id THEN Spread(Head(list), updates) ELSE Head(list) >>
            \o updateAnnotation(Tail(list), id, updates)

\* state.annotations.filter(...)
deleteAnnotation(list, id) ==
    LET Keeps(annotation) == annotation.id # id
    IN  SelectSeq(list, Keeps)

\* set({ annotations })
setAnnotations(list, replacement) == replacement

\* the records callers add
NewAnnotations ==
    { [id |-> id, color |-> "yellow"] : id \in AnnotationIds }

\* the partial records callers update with
UpdateChoices ==
    { [color |-> "blue"], [comment |-> "note"], [comment |-> "note", color |-> "blue"] }

\* the lists callers replace the store's list with
ReplacementLists ==
    { <<>>,
      << [id |-> 2, color |-> "blue", comment |-> "note"], [id |-> 1, color |-> "yellow"] >>,
      << [id |-> 1, color |-> "yellow"], [id |-> 1, color |-> "blue"] >> }

\* a non-empty comment among the fields
GivesComment(updates) == "comment" \in DOMAIN updates /\ updates.comment # ""

AddAnnotation(annotation) ==
    /\ Len(annotations) < MaxAnnotations
    /\ annotations' = addAnnotation(annotations, annotation)
    /\ lastCall' = [op |-> "addAnnotation", id |-> annotation.id, arg |-> annotation]
    /\ UNCHANGED <<commented, editingAnnotationId, pendingSelection, focusedAnnotationId, uuids>>
    /\ UNCHANGED <<rasterVars, clampVars, geomVars, textVars, tipVars, hostVars>>

UpdateAnnotation(id, updates) ==
    /\ annotations' = updateAnnotation(annotations, id, updates)
    /\ lastCall' = [op |-> "updateAnnotation", id |-> id, arg |-> updates]
    /\ commented' = IF GivesComment(updates) /\ (\E i \in DOMAIN annotations : annotations[i].id = id)
                    THEN commented \cup {id} ELSE commented
    /\ UNCHANGED <<editingAnnotationId, pendingSelection, focusedAnnotationId, uuids>>
    /\ UNCHANGED <<rasterVars, clampVars, geomVars, textVars, tipVars, hostVars>>

DeleteAnnotation(id) ==
    /\ annotations' = deleteAnnotation(annotations, id)
    /\ lastCall' = [op |-> "deleteAnnotation", id |-> id, arg |-> <<>>]
    /\ UNCHANGED <<commented, editingAnnotationId, pendingSelection, focusedAnnotationId, uuids>>
    /\ UNCHANGED <<rasterVars, clampVars, geomVars, textVars, tipVars, hostVars>>

SetAnnotations(replacement) ==
    /\ annotations' = setAnnotations(annotations, replacement)
    /\ lastCall' = [op |-> "setAnnotations", id |-> 0, arg |-> replacement]
    /\ UNCHANGED <<commented, editingAnnotationId, pendingSelection, focusedAnnotationId, uuids>>
    /\ UNCHANGED <<rasterVars, clampVars, geomVars, textVars, tipVars, hostVars>>

InitStore ==
    /\ RasterIdle
    /\ bouncyZoom = RInt(1)
    /\ ClampIdle
    /\ GeomIdle
    /\ UiIdle

NextStore ==
    \/ \E annotation \in NewAnnotations : AddAnnotation(annotation)
    \/ \E id \in AnnotationIds, updates \in UpdateChoices : UpdateAnnotation(id, updates)
    \/ \E id \in AnnotationIds : DeleteAnnotation(id)
    \/ \E replacement \in ReplacementLists : SetAnnotations(replacement)

SpecStore == InitStore /\ [][NextStore]_vars

\* ------------------------------------------------------------------------
\* Properties of the annotation store
\* ------------------------------------------------------------------------
\* the k-th of the indices kept
KthOf(keep, k) == CHOOSE i \in keep : Cardinality({ j \in keep : j <= i }) = k

\* the reference ordered list after a call on the list before
ReferenceList(call, before) ==
    CASE call.op = "addAnnotation" ->
            [i \in 1..(Len(before) + 1) |->
                IF i <= Len(before) THEN before[i] ELSE call.arg]
      [] call.op = "updateAnnotation" ->
            [i \in DOMAIN before |->
                IF before[i].id = call.id THEN call.arg @@ before[i] ELSE before[i]]
      [] call.op = "deleteAnnotation" ->
            LET keep == { i \in DOMAIN before : before[i].id # call.id }
            IN  [k \in 1..Cardinality(keep) |-> before[KthOf(keep, k)]]
      [] call.op = "setAnnotations" -> call.arg
      [] OTHER -> before

\* C15: every store call leaves the list equal to the reference list: add
\* appends, update merges the fields into each record of that id in place,
\* delete removes each record of that id, set replaces the list.
C15_StoreMatchesReference ==
    [][ annotations' = ReferenceList(lastCall', annotations) ]_vars

\* an update has merged a comment into two records of one id and left the
\* record between them alone
C15_Witness ==
    /\ lastCall.op = "updateAnnotation"
    /\ Len(annotations) = 3
    /\ annotations[1].id = lastCall.id /\ annotations[3].id = lastCall.id
    /\ annotations[2].id # lastCall.id
    /\ "comment" \in DOMAIN annotations[1] /\ "comment" \in DOMAIN annotations[3]
    /\ "comment" \notin DOMAIN annotations[2]

\* C16: updateAnnotation and deleteAnnotation leave the records of every
\* other id unchanged and in order; with no record of the id the list is
\* unchanged; updateAnnotation keeps the length.
C16_OtherRecordsUnchanged ==
    [][ LET id == lastCall'.id
            Other(annotation) == annotation.id # id
            noMatch == \A i \in DOMAIN annotations : annotations[i].id # id
        IN  /\ lastCall'.op = "updateAnnotation" =>
                  /\ Len(annotations') = Len(annotations)
                  /\ \A i \in DOMAIN annotations :
                        annotations[i].id # id => annotations'[i] = annotations[i]
                  /\ noMatch => annotations' = annotations
            /\ lastCall'.op = "deleteAnnotation" =>
                  /\ SelectSeq(annotations', Other) = SelectSeq(annotations, Other)
                  /\ noMatch => annotations' = annotations
      ]_vars

\* a delete has left only records of the other id, in the store's order
C16_Witness ==
    /\ lastCall.op = "deleteAnnotation"
    /\ Len(annotations) = 2
    /\ \A i \in DOMAIN annotations : annotations[i].id # lastCall.id
    /\ annotations[1] # annotations[2]

\* ---------------------------------------------------------------------
\* The comment flow of PDFContent: the handlers that create a highlight or
\* a comment-pending highlight, save or cancel the composer, close the
\* tooltip, and the buttons of TooltipContent.  Each handler calls the
\* store operations above; lastCall names the handler that ran last and
\* the id of the annotation it was about.
\* ---------------------------------------------------------------------

\* the number of identifiers uuidv4 hands out
MaxUuids == 3

\* what the textarea of TooltipContent can hold when Save is pressed
TooltipComments == { "", "note" }

\* what CommentInput passes to onSave: a trimmed, non-empty text
ComposerComments == { "note" }

\* annotation.isCommentPending
IsCommentPending(annotation) ==
    "isCommentPending" \in DOMAIN annotation /\ annotation.isCommentPending

\* !annotation.comment: the field is missing or the empty string
NoComment(annotation) ==
    ~ ("comment" \in DOMAIN annotation /\ annotation.comment # "")

\* annotations.find((a) => a.id === id): the position of the first record
\* of the id, 0 when there is none
FindAnnotation(list, id) ==
    IF \E i \in DOMAIN list : list[i].id = id
    THEN CHOOSE i \in DOMAIN list :
            list[i].id = id /\ \A j \in 1..(i - 1) : list[j].id # id
    ELSE 0

\* the click tooltip of the record is open: isOpen={focusedAnnotationId === annotation.id}
TooltipOpenFor(annotation) == focusedAnnotationId = annotation.id

\* renderTooltipContent shows the composer for the record
ComposerShownFor(annotation) ==
    TooltipOpenFor(annotation) /\ editingAnnotationId = annotation.id

\* renderTooltipContent shows TooltipContent for the record
ContentShownFor(annotation) ==
    TooltipOpenFor(annotation) /\ editingAnnotationId # annotation.id

HandlerCall(op, id) == [op |-> op, id |-> id, arg |-> <<>>]

HandleCreateAnnotation ==
    /\ uuids < MaxUuids
    /\ Len(annotations) < MaxAnnotations
    /\ uuids' = uuids + 1
    /\ annotations' = addAnnotation(annotations, [id |-> uuids + 1, color |-> "yellow"])
    /\ lastCall' = HandlerCall("handleCreateAnnotation", uuids + 1)
    /\ UNCHANGED <<commented, editingAnnotationId, pendingSelection, focusedAnnotationId>>
    /\ UNCHANGED <<rasterVars, clampVars, geomVars, textVars, tipVars, hostVars>>

HandleCreateComment ==
    /\ uuids < MaxUuids
    /\ Len(annotations) < MaxAnnotations
    /\ uuids' = uuids + 1
    /\ annotations' = addAnnotation(annotations,
            [id |-> uuids + 1, color |-> "blue", isCommentPending |-> TRUE])
    /\ editingAnnotationId' = uuids + 1
    /\ pendingSelection' = TRUE
    /\ focusedAnnotationId' = uuids + 1
    /\ lastCall' = HandlerCall("handleCreateComment", uuids + 1)
    /\ UNCHANGED commented
    /\ UNCHANGED <<rasterVars, clampVars, geomVars, textVars, tipVars, hostVars>>

\* CommentInput's Save: handleSaveComment(comment), then onClose()
HandleSaveComment(comment) ==
    /\ \E i \in DOMAIN annotations : ComposerShownFor(annotations[i])
    /\ lastCall' = HandlerCall("handleSaveComment", editingAnnotationId)
    /\ IF ~pendingSelection \/ editingAnnotationId = 0
       THEN UNCHANGED <<annotations, commented, editingAnnotationId, pendingSelection>>
       ELSE /\ annotations' = updateAnnotation(annotations, editingAnnotationId,
                                               [comment |-> comment])
            /\ commented' = IF GivesComment([comment |-> comment])
                            THEN commented \cup {editingAnnotationId} ELSE commented
            /\ editingAnnotationId' = 0
            /\ pendingSelection' = FALSE
    /\ UNCHANGED <<focusedAnnotationId, uuids>>
    /\ UNCHANGED <<rasterVars, clampVars, geomVars, textVars, tipVars, hostVars>>

\* CommentInput's Cancel or Escape: handleCancelComment(), then onClose()
HandleCancelComment ==
    /\ \E i \in DOMAIN annotations : ComposerShownFor(annotations[i])
    /\ lastCall' = HandlerCall("handleCancelComment", editingAnnotationId)
    /\ annotations' =
         IF /\ editingAnnotationId # 0
            /\ FindAnnotation(annotations, editingAnnotationId) # 0
            /\ NoComment(annotations[FindAnnotation(annotations, editingAnnotationId)])
         THEN deleteAnnotation(annotations, editingAnnotationId)
         ELSE annotations
    /\ editingAnnotationId' = 0
    /\ pendingSelection' = FALSE
    /\ UNCHANGED <<commented, focusedAnnotationId, uuids>>
    /\ UNCHANGED <<rasterVars, clampVars, geomVars, textVars, tipVars, hostVars>>

\* the open tooltip of a record is dismissed (Escape, press outside):
\* onOpenChange(false) reaches handleAnnotationTooltipClose(annotation)
HandleAnnotationTooltipClose(i) ==
    /\ TooltipOpenFor(annotations[i])
    /\ lastCall' = HandlerCall("handleAnnotationTooltipClose", annotations[i].id)
    /\ annotations' =
         IF IsCommentPending(annotations[i]) /\ NoComment(annotations[i])
         THEN deleteAnnotation(annotations, annotations[i].id)
         ELSE annotations
    /\ editingAnnotationId' = 0
    /\ pendingSelection' = FALSE
    /\ UNCHANGED <<commented, focusedAnnotationId, uuids>>
    /\ UNCHANGED <<rasterVars, clampVars, geomVars, textVars, tipVars, hostVars>>

\* a click on the pages outside every tooltip and highlight
HandlePagesClick ==
    /\ focusedAnnotationId # 0
    /\ focusedAnnotationId' = 0
    /\ lastCall' = HandlerCall("handlePagesClick", 0)
    /\ UNCHANGED <<annotations, commented, editingAnnotationId, pendingSelection, uuids>>
    /\ UNCHANGED <<rasterVars, clampVars, geomVars, textVars, tipVars, hostVars>>

\* onOpenChange(true) of a record's tooltip: handleAnnotationClick(annotation)
HandleAnnotationClick(i) ==
    /\ focusedAnnotationId' = annotations[i].id
    /\ lastCall' = HandlerCall("handleAnnotationClick", annotations[i].id)
    /\ UNCHANGED <<annotations, commented, editingAnnotationId, pendingSelection, uuids>>
    /\ UNCHANGED <<rasterVars, clampVars, geomVars, textVars, tipVars, hostVars>>

\* TooltipContent's Save: updateAnnotation(annotation.id, { comment })
TooltipSaveComment(i, comment) ==
    /\ ContentShownFor(annotations[i])
    /\ annotations' = updateAnnotation(annotations, annotations[i].id, [comment |-> comment])
    /\ commented' = IF GivesComment([comment |-> comment])
                    THEN commented \cup {annotations[i].id} ELSE commented
    /\ lastCall' = HandlerCall("TooltipContent.handleSaveComment", annotations[i].id)
    /\ UNCHANGED <<editingAnnotationId, pendingSelection, focusedAnnotationId, uuids>>
    /\ UNCHANGED <<rasterVars, clampVars, geomVars, textVars, tipVars, hostVars>>

\* TooltipContent's colour buttons: updateAnnotation(annotation.id, { color })
TooltipColorChange(i) ==
    /\ ContentShownFor(annotations[i])
    /\ annotations' = updateAnnotation(annotations, annotations[i].id, [color |-> "green"])
    /\ lastCall' = HandlerCall("TooltipContent.handleColorChange", annotations[i].id)
    /\ UNCHANGED <<commented, editingAnnotationId, pendingSelection, focusedAnnotationId, uuids>>
    /\ UNCHANGED <<rasterVars, clampVars, geomVars, textVars, tipVars, hostVars>>

\* TooltipContent's Delete: deleteAnnotation(annotation.id)
TooltipDelete(i) ==
    /\ ContentShownFor(annotations[i])
    /\ annotations' = deleteAnnotation(annotations, annotations[i].id)
    /\ lastCall' = HandlerCall("TooltipContent.handleDelete", annotations[i].id)
    /\ UNCHANGED <<commented, editingAnnotationId, pendingSelection, focusedAnnotationId, uuids>>
    /\ UNCHANGED <<rasterVars, clampVars, geomVars, textVars, tipVars, hostVars>>

InitComment ==
    /\ RasterIdle
    /\ bouncyZoom = RInt(1)
    /\ ClampIdle
    /\ GeomIdle
    /\ UiIdle

NextComment ==
    \/ HandleCreateAnnotation
    \/ HandleCreateComment
    \/ \E comment \in ComposerComments : HandleSaveComment(comment)
    \/ HandleCancelComment
    \/ \E i \in DOMAIN annotations : HandleAnnotationTooltipClose(i)
    \/ HandlePagesClick
    \/ \E i \in DOMAIN annotations : HandleAnnotationClick(i)
    \/ \E i \in DOMAIN annotations, comment \in TooltipComments : TooltipSaveComment(i, comment)
    \/ \E i \in DOMAIN annotations : TooltipColorChange(i)
    \/ \E i \in DOMAIN annotations : TooltipDelete(i)

SpecComment == InitComment /\ [][NextComment]_vars

\* ---------------------------------------------------------------------
\* Properties of the comment flow
\* ---------------------------------------------------------------------

\* the step is a composer cancel or a tooltip close about a record that
\* was comment-pending in the store before the step
CancelOrCloseOfPending ==
    /\ lastCall'.op \in { "handleCancelComment", "handleAnnotationTooltipClose" }
    /\ FindAnnotation(annotations, lastCall'.id) # 0
    /\ IsCommentPending(annotations[FindAnnotation(annotations, lastCall'.id)])

InStore(list, id) == \E i \in DOMAIN list : list[i].id = id

\* the first half of C17 alone: a comment-pending annotation that never
\* received a comment is gone after its composer is cancelled or its
\* tooltip is closed
C17_UncommentedRemoved ==
    [][ (CancelOrCloseOfPending /\ lastCall'.id \notin commented)
            => ~InStore(annotations', lastCall'.id) ]_vars

\* C17: a comment-pending annotation whose composer is cancelled or whose
\* tooltip is closed before any comment was saved is removed from the
\* store, and one that received a comment through updateAnnotation before
\* the cancel or close is retained.
C17_PendingLifecycle ==
    [][ CancelOrCloseOfPending =>
            IF lastCall'.id \in commented
            THEN InStore(annotations', lastCall'.id)
            ELSE ~InStore(annotations', lastCall'.id) ]_vars

\* ---------------------------------------------------------------------
\* Degenerate selections
\* ---------------------------------------------------------------------

\* window.getSelection() is absent or collapsed
NoRange == selection.kind # "range"

\* the first half of C18 alone: both extractors return undefined for an
\* absent or collapsed selection
C18_AbsentIsUndefined ==
    /\ (dim # None /\ NoRange) => dim = Undefined
    /\ (annDim # None /\ NoRange) => annDim = Undefined

\* C18: getDimension and getAnnotationDimension return undefined when the
\* selection is absent or collapsed, and also when no fragment of the
\* selection resolves to a text layer or every fragment is filtered out as
\* zero-area or noise.
C18_DegenerateIsUndefined ==
    /\ (dim # None /\ (NoRange \/ DimInputs = {})) => dim = Undefined
    /\ (annDim # None /\ (NoRange \/ AnnInputs = {})) => annDim = Undefined

\* ---------------------------------------------------------------------
\* AnnotationTooltip: one mounted tooltip component of one annotation.
\* tooltip holds its props, the state of its two useAnnotationTooltip
\* hooks (click and hover), its two refs and the timers it started.
\*   props: controlledIsOpen, controlledHoverIsOpen ("undefined", "true",
\*          "false"), focusedOpenId, focusedHoverOpenId ("none", "self",
\*          "other"), comment (annotation.comment is truthy),
\*          hoverTooltipContent (the prop is truthy)
\*   hooks: isOpen, isPositionCalculated; hoverIsOpen, hoverIsPositionCalculated
\*   refs:  isMouseInTooltipRef; closeTimeoutRef ("null", or the timer it
\*          names is "pending" or "fired"); orphans counts the pending
\*          timers closeTimeoutRef no longer names
\*   viewport: viewportRef.current is set
\*   pointer: where the mouse pointer is ("away", on the "highlight", on
\*          the hover "tooltip")
\* ---------------------------------------------------------------------

\* the pending close timers closeTimeoutRef has lost track of
MaxOrphans == 1

Tristate == { "undefined", "true", "false" }

FocusIds == { "none", "self", "other" }

\* useAnnotationTooltip: ((isOpen && isPositionCalculated) || controlledIsOpen) ?? false
effectiveIsOpen(open, positionCalculated, controlled) ==
    IF open /\ positionCalculated THEN TRUE ELSE controlled = "true"

\* the isOpen the click hook returns
uncontrolledIsOpen(t) == effectiveIsOpen(t.isOpen, t.isPositionCalculated, t.controlledIsOpen)

\* the isOpen the hover hook returns
uncontrolledHoverIsOpen(t) ==
    effectiveIsOpen(t.hoverIsOpen, t.hoverIsPositionCalculated, t.controlledHoverIsOpen)

\* const isOpen = controlledIsOpen ?? uncontrolledIsOpen
IsOpen(t) ==
    IF t.controlledIsOpen = "undefined" THEN uncontrolledIsOpen(t)
    ELSE t.controlledIsOpen = "true"

\* const hoverIsOpen = controlledHoverIsOpen || uncontrolledHoverIsOpen
HoverIsOpen(t) == t.controlledHoverIsOpen = "true" \/ uncontrolledHoverIsOpen(t)

\* the click tooltip portal is rendered
ShowsClick(t) == IsOpen(t) /\ t.viewport

\* a render that leaves out the !isOpen test
ShowsHoverOverClick(t) ==
    HoverIsOpen(t) /\ t.comment /\ t.hoverTooltipContent /\ t.viewport

\* the hover tooltip portal is rendered
ShowsHover(t) ==
    ~IsOpen(t) /\ HoverIsOpen(t) /\ t.comment /\ t.hoverTooltipContent /\ t.viewport

MountedTooltip ==
    [ controlledIsOpen |-> "undefined", controlledHoverIsOpen |-> "undefined",
      focusedOpenId |-> "none", focusedHoverOpenId |-> "none",
      comment |-> FALSE, hoverTooltipContent |-> FALSE,
      isOpen |-> FALSE, isPositionCalculated |-> FALSE,
      hoverIsOpen |-> FALSE, hoverIsPositionCalculated |-> FALSE,
      isMouseInTooltip |-> FALSE, closeTimeout |-> "null", orphans |-> 0,
      viewport |-> FALSE, pointer |-> "away" ]

\* the focus guards of handleMouseEnter and handleTooltipMouseEnter
FocusedElsewhere(t) == t.focusedOpenId = "other" \/ t.focusedHoverOpenId = "other"

\* if (closeTimeoutRef.current) { clearTimeout(...); closeTimeoutRef.current = null }
ClearCloseTimeout(t) == [t EXCEPT !.closeTimeout = "null"]

\* a hover tooltip that is taken off the screen under the pointer gets no
\* mouseleave: the pointer is then over whatever lies beneath
PointerAfter(next) ==
    IF next.pointer = "tooltip" /\ ~ShowsHover(next)
    THEN [next EXCEPT !.pointer = "away"] ELSE next

TipStep(next) ==
    /\ tooltip # None
    /\ tooltip' = PointerAfter(next)
    /\ UNCHANGED <<rasterVars, clampVars, geomVars, textVars, storeVars, reference, hostVars>>

\* the parent renders the component with one prop changed
SetProp(name, value) ==
    TipStep([tooltip EXCEPT ![name] = value])

\* viewportRef.current is set
ViewportAttach ==
    /\ tooltip # None /\ ~tooltip.viewport
    /\ TipStep([tooltip EXCEPT !.viewport = TRUE])

\* handleClick on the reference element
TipHandleClick ==
    /\ tooltip # None /\ tooltip.pointer = "highlight"
    /\ TipStep(IF tooltip.controlledIsOpen = "undefined"
               THEN [tooltip EXCEPT !.isOpen = ~IsOpen(tooltip)]
               ELSE tooltip)

TipHandleMouseEnter ==
    /\ tooltip # None /\ tooltip.pointer = "away"
    /\ TipStep(IF FocusedElsewhere(tooltip) \/ ~tooltip.hoverTooltipContent
               THEN [tooltip EXCEPT !.pointer = "highlight"]
               ELSE [ClearCloseTimeout(tooltip) EXCEPT !.hoverIsOpen = TRUE,
                                                       !.pointer = "highlight"])

\* closeTimeoutRef.current = setTimeout(closeTooltip, 100); a timer the ref
\* named before keeps running
TipHandleMouseLeave ==
    /\ tooltip # None /\ tooltip.pointer = "highlight"
    /\ tooltip.closeTimeout = "pending" => tooltip.orphans < MaxOrphans
    /\ TipStep(IF ~tooltip.hoverTooltipContent
               THEN [tooltip EXCEPT !.pointer = "away"]
               ELSE [tooltip EXCEPT
                        !.orphans = IF tooltip.closeTimeout = "pending" THEN @ + 1 ELSE @,
                        !.closeTimeout = "pending",
                        !.pointer = "away"])

\* closeTooltip
closeTooltip(t) == IF ~t.isMouseInTooltip THEN [t EXCEPT !.hoverIsOpen = FALSE] ELSE t

\* the timer closeTimeoutRef names fires
CloseTimeoutFires ==
    /\ tooltip # None /\ tooltip.closeTimeout = "pending"
    /\ TipStep(closeTooltip([tooltip EXCEPT !.closeTimeout = "fired"]))

\* a timer closeTimeoutRef no longer names fires
OrphanTimeoutFires ==
    /\ tooltip # None /\ tooltip.orphans > 0
    /\ TipStep(closeTooltip([tooltip EXCEPT !.orphans = @ - 1]))

\* handleTooltipMouseEnter on the hover tooltip element
TipHandleTooltipMouseEnter ==
    /\ tooltip # None /\ ShowsHover(tooltip) /\ tooltip.pointer = "away"
    /\ TipStep(IF FocusedElsewhere(tooltip)
               THEN [tooltip EXCEPT !.pointer = "tooltip"]
               ELSE [ClearCloseTimeout(tooltip) EXCEPT !.isMouseInTooltip = TRUE,
                                                       !.pointer = "tooltip"])

\* handleTooltipMouseLeave on the hover tooltip element
TipHandleTooltipMouseLeave ==
    /\ tooltip # None /\ ShowsHover(tooltip) /\ tooltip.pointer = "tooltip"
    /\ TipStep([tooltip EXCEPT !.isMouseInTooltip = FALSE, !.hoverIsOpen = FALSE,
                               !.pointer = "away"])

\* useDismiss of the click hook: onOpenChange(false) -> setIsOpen(false)
TipDismiss ==
    /\ tooltip # None /\ uncontrolledIsOpen(tooltip)
    /\ TipStep([tooltip EXCEPT !.isOpen = FALSE])

\* useDismiss of the hover hook
TipHoverDismiss ==
    /\ tooltip # None /\ uncontrolledHoverIsOpen(tooltip)
    /\ TipStep([tooltip EXCEPT !.hoverIsOpen = FALSE])

\* the onClose handed to renderTooltipContent: setIsOpen(false)
TipOnClose ==
    /\ tooltip # None /\ ShowsClick(tooltip)
    /\ TipStep([tooltip EXCEPT !.isOpen = FALSE])

\* updateTooltipPosition of the click hook: the position is calculated when
\* the viewport, the page element and the highlights are there, and a new
\* annotation is then opened
UpdateTooltipPosition(found, isNewAnnotation) ==
    /\ tooltip # None
    /\ found => tooltip.viewport
    /\ TipStep([tooltip EXCEPT !.isPositionCalculated = found,
                               !.isOpen = IF found /\ isNewAnnotation THEN TRUE ELSE @])

\* updateTooltipPosition of the hover hook
UpdateHoverTooltipPosition(found, isNewAnnotation) ==
    /\ tooltip # None
    /\ found => tooltip.viewport
    /\ TipStep([tooltip EXCEPT !.hoverIsPositionCalculated = found,
                               !.hoverIsOpen = IF found /\ isNewAnnotation THEN TRUE ELSE @])

\* the props a parent can change, with the values it can give them
PropChoices ==
    ({ "controlledIsOpen", "controlledHoverIsOpen" } \X Tristate)
    \cup ({ "focusedOpenId", "focusedHoverOpenId" } \X FocusIds)
    \cup ({ "comment", "hoverTooltipContent" } \X BOOLEAN)

InitTooltip ==
    /\ RasterIdle
    /\ bouncyZoom = RInt(1)
    /\ ClampIdle
    /\ GeomIdle
    /\ TextIdle
    /\ StoreIdle
    /\ HostIdle
    /\ tooltip = MountedTooltip
    /\ reference = None

NextTooltip ==
    \/ \E choice \in PropChoices : SetProp(choice[1], choice[2])
    \/ ViewportAttach
    \/ TipHandleClick
    \/ TipHandleMouseEnter
    \/ TipHandleMouseLeave
    \/ CloseTimeoutFires
    \/ OrphanTimeoutFires
    \/ TipHandleTooltipMouseEnter
    \/ TipHandleTooltipMouseLeave
    \/ TipDismiss
    \/ TipHoverDismiss
    \/ TipOnClose
    \/ \E found \in BOOLEAN, isNewAnnotation \in BOOLEAN :
            UpdateTooltipPosition(found, isNewAnnotation)
    \/ \E found \in BOOLEAN, isNewAnnotation \in BOOLEAN :
            UpdateHoverTooltipPosition(found, isNewAnnotation)

SpecTooltip == InitTooltip /\ [][NextTooltip]_vars

\* ---------------------------------------------------------------------
\* Properties of the tooltip
\* ---------------------------------------------------------------------

\* C19: in every reachable state of the click-open and hover-open flags of
\* an annotation's tooltip, the hover tooltip content is not rendered while
\* the click tooltip is open.
C19_ClickOverHover ==
    (tooltip # None /\ IsOpen(tooltip)) => ~ShowsHover(tooltip)

\* an uncontrolled tooltip opened by a click while its hover tooltip is
\* open and has everything it needs to render
C19_Witness ==
    /\ tooltip # None
    /\ tooltip.controlledIsOpen = "undefined" /\ tooltip.isOpen /\ IsOpen(tooltip)
    /\ ShowsClick(tooltip)
    /\ HoverIsOpen(tooltip) /\ tooltip.comment /\ tooltip.hoverTooltipContent

\* ---------------------------------------------------------------------
\* Order of the returned rects
\* ---------------------------------------------------------------------

\* the text layer map of getDimension: per page, the rects in the order
\* their fragments were met
DimInputMap == DimensionMap(SelectSeq(selection.rects, NotTiny), 1, bouncyZoom, <<>>)

PageAscending(rects) ==
    \A a, b \in DOMAIN rects : a < b => rects[a].pageNumber <= rects[b].pageNumber

\* the position, among the fragments of its page, of the first fragment
\* that lies inside the returned rect; 0 when there is none
FirstSource(o, map) ==
    LET k == CHOOSE k \in DOMAIN map : map[k].page = o.pageNumber
        inside == { i \in DOMAIN map[k].rects : Inside(map[k].rects[i], o) }
    IN  IF inside = {} THEN 0
        ELSE CHOOSE i \in inside : \A j \in inside : i <= j

\* rects of one page come in the order their first fragments were met
DiscoveryOrdered(rects, map) ==
    \A a, b \in DOMAIN rects :
        (a < b /\ rects[a].pageNumber = rects[b].pageNumber)
            => FirstSource(rects[a], map) <= FirstSource(rects[b], map)

\* the page order alone: every returned list is ascending by pageNumber
C20_PageAscending ==
    /\ Computed(dim) => PageAscending(dim.highlights)
    /\ Computed(annDim) => PageAscending(annDim.highlights) /\ PageAscending(annDim.underlines)

\* getDimension alone: the highlights of a page keep the order of discovery
C20_DimensionKeepsDiscoveryOrder ==
    Computed(dim) => DiscoveryOrdered(dim.highlights, DimInputMap)

\* C20: the highlights and underlines returned by getDimension and
\* getAnnotationDimension are in non-decreasing pageNumber order, and the
\* rects of one page are in the order in which their fragments were
\* discovered.
C20_OutputOrder ==
    /\ Computed(dim) =>
          PageAscending(dim.highlights) /\ DiscoveryOrdered(dim.highlights, DimInputMap)
    /\ Computed(annDim) =>
          /\ PageAscending(annDim.highlights)
          /\ DiscoveryOrdered(annDim.highlights, AnnInputMaps.highlight)
          /\ PageAscending(annDim.underlines)
          /\ DiscoveryOrdered(annDim.underlines, AnnInputMaps.underline)

\* ---------------------------------------------------------------------
\* The detail surface after its effect ran
\* ---------------------------------------------------------------------

\* a step in which the layout effect of the mounted layer ran
EffectRan ==
    \/ \E ctx \in BOOLEAN : Mount(ctx)
    \/ \E ctx \in BOOLEAN : ZoomDebounced(ctx)
    \/ \E d \in DprLevels, ctx \in BOOLEAN : mounted /\ DprChange(d, ctx)
    \/ \E ctx \in BOOLEAN : BackgroundChange(ctx)
    \/ \E ctx \in BOOLEAN : ScrollDebounced(ctx)

\* dpr x zoom x 1.3 exceeds the clamped base scale by more than 1e-3
ExceedsBaseScale(pg, z, d) ==
    RLt(Rat(1, 1000),
        RSub(RMul(RMul(RInt(d), z), Rat(13, 10)),
             clampScaleForPage(RMul(RInt(d), RMin(z, RInt(1))), pg.width, pg.height)))

\* the visible region of the page has positive width and height
RegionPositive(pg, z, sc) ==
    /\ RLt(RInt(0), VisibleRegion(pg, z, sc).width)
    /\ RLt(RInt(0), VisibleRegion(pg, z, sc).height)

\* C21: after every run of the detail effect that reached the surface, the
\* detail surface is displayed only if the target detail scale exceeds the
\* clamped base scale by more than 1e-3 and the visible region of the page
\* has positive width and height; in every other case it is hidden and its
\* pixel width and height are 0.
C21_DetailShownOnlyWhenNeeded ==
    [][ (EffectRan /\ surface = "detail" /\ canvas'.present) =>
            LET may == /\ ExceedsBaseScale(page', zoom', dpr')
                       /\ RegionPositive(page', zoom', scroll')
            IN  /\ canvas'.display \in { "block", "none" }
                /\ canvas'.display = "block" => may
                /\ ~may => /\ canvas'.display = "none"
                           /\ canvas'.width = 0
                           /\ canvas'.height = 0 ]_vars

\* the detail surface of a page zoomed above 1 was hidden and zeroed because
\* the viewport was scrolled past the page
C21_Witness ==
    /\ surface = "detail" /\ mounted /\ canvas.present
    /\ zoom = bouncyZoom /\ ~scroll.dirty
    /\ RLt(RInt(1), zoom)
    /\ ExceedsBaseScale(page, zoom, dpr)
    /\ ~RegionPositive(page, zoom, scroll)
    /\ canvas.display = "none" /\ canvas.width = 0 /\ canvas.height = 0

\* ---------------------------------------------------------------------
\* The frame on a surface across re-renders
\* ---------------------------------------------------------------------

\* the surface shows the complete frame of a render operation
ShowsCommittedFrame(cv) == cv.present /\ cv.complete /\ cv.frame # 0

\* C22: a surface that shows a committed frame keeps showing a committed
\* frame, the previous one or a new one, for as long as it stays mounted
\* and is not hidden: a re-render, and a render operation that fails or is
\* superseded, never leave it blank.
C22_CommittedFrameStays ==
    [][ (mounted /\ mounted' /\ ShowsCommittedFrame(canvas) /\ canvas'.display # "none")
            => ShowsCommittedFrame(canvas') ]_vars

\* ---------------------------------------------------------------------
\* AnnotationHighlightLayer: the tooltip of one annotation ("self") as the
\* layer mounts it.  The layer derives the tooltip's props from its own
\* focusedAnnotationId and focusedHoverAnnotationId ("none": undefined).
\* ---------------------------------------------------------------------

\* isOpen={focusedAnnotationId === annotation.id}
LayerIsOpen(focused) == IF focused = "self" THEN "true" ELSE "false"

LayerTooltip ==
    [MountedTooltip EXCEPT !.controlledIsOpen = LayerIsOpen("none"),
                           !.controlledHoverIsOpen = LayerIsOpen("none"),
                           !.hoverTooltipContent = TRUE]

\* the layer is rendered with another focusedAnnotationId
LayerSetFocused(focused) ==
    /\ tooltip # None
    /\ TipStep([tooltip EXCEPT !.focusedOpenId = focused,
                               !.controlledIsOpen = LayerIsOpen(focused)])

\* the layer is rendered with another focusedHoverAnnotationId
LayerSetHoverFocused(focused) ==
    /\ tooltip # None
    /\ TipStep([tooltip EXCEPT !.focusedHoverOpenId = focused,
                               !.controlledHoverIsOpen = LayerIsOpen(focused)])

\* the annotation of the store gets or loses its comment
LayerSetComment(commentGiven) == SetProp("comment", commentGiven)

InitLayer ==
    /\ RasterIdle
    /\ bouncyZoom = RInt(1)
    /\ ClampIdle
    /\ GeomIdle
    /\ TextIdle
    /\ StoreIdle
    /\ HostIdle
    /\ tooltip = LayerTooltip
    /\ reference = None

NextLayer ==
    \/ \E focused \in FocusIds : LayerSetFocused(focused)
    \/ \E focused \in FocusIds : LayerSetHoverFocused(focused)
    \/ \E commentGiven \in BOOLEAN : LayerSetComment(commentGiven)
    \/ ViewportAttach
    \/ TipHandleMouseEnter
    \/ TipHandleMouseLeave
    \/ CloseTimeoutFires
    \/ OrphanTimeoutFires
    \/ TipHandleTooltipMouseEnter
    \/ TipHandleTooltipMouseLeave
    \/ TipDismiss
    \/ TipHoverDismiss
    \/ TipOnClose
    \/ \E found \in BOOLEAN, isNewAnnotation \in BOOLEAN :
            UpdateTooltipPosition(found, isNewAnnotation)
    \/ \E found \in BOOLEAN, isNewAnnotation \in BOOLEAN :
            UpdateHoverTooltipPosition(found, isNewAnnotation)

SpecLayer == InitLayer /\ [][NextLayer]_vars

\* a focused id of the layer names another annotation and none names this one
FocusedOnAnother(t) ==
    /\ t.focusedOpenId = "other" \/ t.focusedHoverOpenId = "other"
    /\ t.focusedOpenId # "self" /\ t.focusedHoverOpenId # "self"

\* the click tooltip alone: it is never displayed for an annotation the
\* click focus does not name
C23_ClickTooltipGated ==
    (tooltip # None /\ tooltip.focusedOpenId # "self") => ~ShowsClick(tooltip)

\* C23: while a focused id (click focus or hover focus) is set to another
\* annotation, neither the click tooltip nor the hover tooltip of this
\* annotation is displayed, whatever pointer events and creations came
\* before or after the focused id was set.
C23_FocusGatesTooltips ==
    (tooltip # None /\ FocusedOnAnother(tooltip))
        => ~ShowsClick(tooltip) /\ ~ShowsHover(tooltip)

\* ---------------------------------------------------------------------
\* The close timer of the hover tooltip
\* ---------------------------------------------------------------------

\* the hover tooltip is on the screen, open by its own state and not by the
\* prop, and no focused id names another annotation
HoverOpenByPointer(t) ==
    /\ ShowsHover(t)
    /\ t.controlledHoverIsOpen # "true"
    /\ ~FocusedElsewhere(t)

\* the pointer leaves the highlight while the hover tooltip is open: the
\* close timer is started
LeaveStartsTimer ==
    (TipHandleMouseLeave /\ HoverOpenByPointer(tooltip))
        => tooltip'.closeTimeout = "pending"

\* the pointer enters the hover tooltip, or the highlight again, before the
\* timer fired: the timer is cancelled and the hover tooltip stays open
EnterCancelsTimer ==
    ((TipHandleTooltipMouseEnter \/ TipHandleMouseEnter)
        /\ HoverOpenByPointer(tooltip) /\ tooltip.closeTimeout = "pending")
        => tooltip'.closeTimeout = "null" /\ HoverIsOpen(tooltip')

\* the timer fires first: the hover tooltip closes
TimerCloses ==
    (CloseTimeoutFires /\ HoverOpenByPointer(tooltip))
        => ~HoverIsOpen(tooltip')

\* the first two parts of C24 alone
C24_TimerStartedAndCancelled ==
    [][ LeaveStartsTimer /\ EnterCancelsTimer ]_vars

\* C24: when the pointer leaves an annotation's highlight while its hover
\* tooltip is open, a close timer is started; if the pointer enters the
\* hover tooltip or the highlight again before the timer fires, the timer
\* is cancelled and the hover tooltip stays open; if the timer fires first,
\* the hover tooltip closes.
C24_HoverCloseTimer ==
    [][ LeaveStartsTimer /\ EnterCancelsTimer /\ TimerCloses ]_vars

\* ---------------------------------------------------------------------
\* The reference rectangle of a tooltip (useAnnotationTooltip).
\* updateTooltipPosition hands floating-ui a reference element whose
\* getBoundingClientRect is a closure over the zoom of that render and over
\* minLeft, maxRight, minTop, maxBottom, declared next to it.  reference:
\*   highlights  annotation.highlights, page units
\*   page        where the page element is on screen: [left, top]
\*   scale       the zoom of the store
\*   closure     None, or what the reference element closes over:
\*               [scale, fresh, minLeft, maxRight, minTop, maxBottom]
\*               (fresh: the four are still Infinity and -Infinity)
\*   pending     a requestAnimationFrame(updateTooltipPosition) is queued
\*   rect        what the last getBoundingClientRect returned, or None
\* ---------------------------------------------------------------------

\* how far the page element moves on screen, in steps of PageStep
MaxPageSteps == 2

PageStep == 5 * 20

PagePositions ==
    { [left |-> 40, top |-> 60 - k * PageStep] : k \in 0..MaxPageSteps }

ReferenceZooms == { 1, 2 }

\* the highlights of the annotations
ReferenceHighlights ==
    { << [left |-> 10, top |-> 20, width |-> 50, height |-> 10] >>,
      << [left |-> 30, top |-> 20, width |-> 60, height |-> 10],
         [left |-> 10, top |-> 32, width |-> 40, height |-> 10] >> }

SetMin(S) == CHOOSE x \in S : \A y \in S : x <= y

SetMax(S) == CHOOSE x \in S : \A y \in S : y <= x

\* the closure of a reference element that updateTooltipPosition just made
FreshClosure(scale) ==
    [scale |-> scale, fresh |-> TRUE, minLeft |-> 0, maxRight |-> 0,
     minTop |-> 0, maxBottom |-> 0]

\* getBoundingClientRect of the reference element: highlightRects.forEach
\* takes the minima and maxima into the variables of the closure
getBoundingClientRect(c, highlights, pageRect) ==
    LET S == DOMAIN highlights
        kept(v) == IF c.fresh THEN {} ELSE {v}
    IN  [c EXCEPT
            !.fresh = FALSE,
            !.minLeft = SetMin(kept(c.minLeft) \cup
                          { pageRect.left + highlights[i].left * c.scale : i \in S }),
            !.maxRight = SetMax(kept(c.maxRight) \cup
                          { pageRect.left + highlights[i].left * c.scale
                              + highlights[i].width * c.scale : i \in S }),
            !.minTop = SetMin(kept(c.minTop) \cup
                          { pageRect.top + highlights[i].top * c.scale : i \in S }),
            !.maxBottom = SetMax(kept(c.maxBottom) \cup
                          { pageRect.top + highlights[i].top * c.scale
                              + highlights[i].height * c.scale : i \in S })]

\* the rect the evaluation returns: left, top, width, height
ReturnedRect(c) ==
    [left |-> c.minLeft, top |-> c.minTop,
     width |-> c.maxRight - c.minLeft, height |-> c.maxBottom - c.minTop]

ReferenceStep(next) ==
    /\ reference # None
    /\ reference' = next
    /\ UNCHANGED <<rasterVars, clampVars, geomVars, textVars, storeVars, tooltip, hostVars>>

\* requestAnimationFrame(updateTooltipPosition): with the viewport and the
\* page element found, a new reference element is set
RunUpdateTooltipPosition(found) ==
    /\ reference # None /\ reference.pending
    /\ ReferenceStep([reference EXCEPT
            !.pending = FALSE,
            !.closure = IF found THEN FreshClosure(reference.scale) ELSE @])

\* floating-ui evaluates the reference element (autoUpdate, a render)
EvaluateReference ==
    /\ reference # None /\ reference.closure # None
    /\ LET c == getBoundingClientRect(reference.closure, reference.highlights,
                                      reference.page)
       IN  ReferenceStep([reference EXCEPT !.closure = c, !.rect = ReturnedRect(c)])

\* the viewport scrolls: the page moves on screen and handleScroll queues
\* an update
ViewportScroll(position) ==
    /\ reference # None /\ position # reference.page
    /\ ReferenceStep([reference EXCEPT !.page = position, !.pending = TRUE])

\* the window scrolls, or the layout around the viewer changes: the page
\* moves on screen
PageMoves(position) ==
    /\ reference # None /\ position # reference.page
    /\ ReferenceStep([reference EXCEPT !.page = position])

\* the window is resized: handleResize queues an update
WindowResize ==
    /\ reference # None /\ ~reference.pending
    /\ ReferenceStep([reference EXCEPT !.pending = TRUE])

\* the zoom of the store changes: the effect runs again and queues an update
ReferenceZoom(scale) ==
    /\ reference # None /\ scale # reference.scale
    /\ ReferenceStep([reference EXCEPT !.scale = scale, !.pending = TRUE])

InitReference ==
    /\ RasterIdle
    /\ bouncyZoom = RInt(1)
    /\ ClampIdle
    /\ GeomIdle
    /\ TextIdle
    /\ StoreIdle
    /\ HostIdle
    /\ tooltip = None
    /\ \E highlights \in ReferenceHighlights, position \in PagePositions,
          scale \in ReferenceZooms :
            reference = [highlights |-> highlights, page |-> position, scale |-> scale,
                         closure |-> None, pending |-> TRUE, rect |-> None]

NextReference ==
    \/ \E found \in BOOLEAN : RunUpdateTooltipPosition(found)
    \/ EvaluateReference
    \/ \E position \in PagePositions : ViewportScroll(position)
    \/ \E position \in PagePositions : PageMoves(position)
    \/ WindowResize
    \/ \E scale \in ReferenceZooms : ReferenceZoom(scale)

SpecReference == InitReference /\ [][NextReference]_vars

\* the union bounding box of the highlights, scaled and offset by the page
UnionBoundingBox(highlights, scale, pageRect) ==
    LET S == DOMAIN highlights
        l == SetMin({ pageRect.left + highlights[i].left * scale : i \in S })
        r == SetMax({ pageRect.left + (highlights[i].left + highlights[i].width) * scale : i \in S })
        t == SetMin({ pageRect.top + highlights[i].top * scale : i \in S })
        b == SetMax({ pageRect.top + (highlights[i].top + highlights[i].height) * scale : i \in S })
    IN  [left |-> l, top |-> t, width |-> r - l, height |-> b - t]

\* the first evaluation of a reference element alone: it returns the union
\* bounding box at the zoom the element was made for
C25_FirstEvaluationExact ==
    [][ (EvaluateReference /\ reference.closure.fresh)
            => reference'.rect = UnionBoundingBox(reference.highlights,
                                    reference.closure.scale, reference.page) ]_vars

\* C25: every evaluation of a tooltip's reference rectangle returns the
\* union bounding box of the annotation's highlights, scaled by the zoom
\* and offset by the position of the page on screen at that evaluation,
\* also after the page moved on screen between two evaluations.
C25_ReferenceIsBoundingBox ==
    [][ (EvaluateReference /\ ~reference.pending)
            => reference'.rect = UnionBoundingBox(reference.highlights,
                                    reference.scale, reference.page) ]_vars

\* ---------------------------------------------------------------------
\* The end-of-content marker among the children of a text layer
\* (the try block of the selectionchange listener, in DOM terms).
\* One registered text layer div holds the spans 1..MaxSpans and its
\* endOfContent div; node 0 is a text node of the document before the
\* layer.  A boundary point is [node, offset]; a range is [start, end].
\* marker:
\*   at          the marker is the child right after span `at` (0: first
\*               child, MaxSpans: last child, as appendChild leaves it)
\*   sized       endDiv.style.width / height are set
\*   selecting   the layer carries the selecting class
\*   prevRange   None, or the clone of the last range
\*   isFirefox   "undefined", "true" or "false"
\* ---------------------------------------------------------------------

\* spans of the text layer
MaxSpans == 3

Offsets == { 0, 1 }

BoundaryPoints == { [node |-> n, offset |-> o] : n \in 0..MaxSpans, o \in Offsets }

\* document order of boundary points
PointOrder(p) == 2 * p.node + p.offset

DocRanges == { [start |-> s, end |-> e] : s, e \in BoundaryPoints }

ValidRanges == { r \in DocRanges : PointOrder(r.start) <= PointOrder(r.end) }

\* range.compareBoundaryPoints(Range.END_TO_END, prevRange) === 0 ||
\* range.compareBoundaryPoints(Range.START_TO_END, prevRange) === 0
ModifyStart(range, prev) ==
    /\ prev # None
    /\ \/ range.end = prev.end
       \/ range.end = prev.start

\* the span the anchor is: the parent of the text node of the boundary
AnchorOf(range, prev) ==
    IF ModifyStart(range, prev) THEN range.start.node ELSE range.end.node

\* anchor.parentElement?.closest(".textLayer") is the registered layer
AnchorInLayer(range, prev) == AnchorOf(range, prev) \in 1..MaxSpans

\* anchor.nextSibling: the marker ("endDiv"), the next span, or null
NextSibling(span, at) ==
    IF at = span THEN "endDiv"
    ELSE IF span < MaxSpans THEN "span"
    ELSE "null"

\* where the marker is after the try block placed it
InsertMarker(range, prev, at) ==
    LET anchor == AnchorOf(range, prev)
    IN  IF ModifyStart(range, prev)
        THEN anchor - 1                     \* insertBefore(endDiv, anchor)
        ELSE IF NextSibling(anchor, at) = "null"
             THEN at                        \* no insert target: nothing moves
             ELSE anchor                    \* insertBefore(endDiv, anchor.nextSibling)

MarkerStep(next) ==
    /\ marker # None
    /\ marker' = next
    /\ UNCHANGED <<rasterVars, clampVars, geomVars, textVars, storeVars, tipVars,
                   persistence, pointerHeld, renders>>

\* reset(endDiv, textLayer), the marker being a child of the layer already
MarkerReset(m) == [m EXCEPT !.sized = FALSE, !.selecting = FALSE]

\* selectionchange with no selection or no range
SelectionCleared ==
    /\ marker # None
    /\ MarkerStep(MarkerReset(marker))

\* pointerup, blur, and keyup with the pointer up
MarkerResetEvent ==
    /\ marker # None
    /\ marker.sized \/ marker.selecting
    /\ MarkerStep(MarkerReset(marker))

\* selectionchange with `range` the first range of the selection; firefox
\* is what the computed style tells when isFirefox is still undefined,
\* throws whether the comparison with prevRange throws
SelectionChangeRange(range, firefox, throws) ==
    /\ marker # None
    /\ throws => marker.prevRange # None
    /\ LET swept == IF range.end.node >= 1
                    THEN [marker EXCEPT !.selecting = TRUE]
                    ELSE MarkerReset(marker)
           nowFirefox == IF marker.isFirefox = "undefined" THEN firefox
                         ELSE marker.isFirefox
           probed == [swept EXCEPT !.isFirefox = nowFirefox]
       IN  IF nowFirefox = "true" \/ throws
           THEN MarkerStep(probed)
           ELSE IF AnchorInLayer(range, marker.prevRange)
                THEN MarkerStep([probed EXCEPT
                        !.sized = TRUE,
                        !.at = InsertMarker(range, marker.prevRange, marker.at),
                        !.prevRange = range])
                ELSE MarkerStep([probed EXCEPT !.prevRange = range])

InitMarker ==
    /\ RasterIdle
    /\ bouncyZoom = RInt(1)
    /\ ClampIdle
    /\ GeomIdle
    /\ TextIdle
    /\ StoreIdle
    /\ TipIdle
    /\ persistence = None /\ pointerHeld = FALSE /\ renders = None
    /\ marker = [at |-> MaxSpans, sized |-> FALSE, selecting |-> FALSE,
                 prevRange |-> None, isFirefox |-> "undefined"]

NextMarker ==
    \/ SelectionCleared
    \/ MarkerResetEvent
    \/ \E range \in ValidRanges, firefox \in {"true", "false"}, throws \in BOOLEAN :
          SelectionChangeRange(range, firefox, throws)

SpecMarker == InitMarker /\ [][NextMarker]_vars

\* the marker is the child right before the span
RightBefore(at, span) == at = span - 1

\* the marker is the child right after the span
RightAfter(at, span) == at = span

\* a selectionchange that reached the try block and whose anchor lies in
\* the registered layer
ReachesTryBlock(range, firefox, throws) ==
    /\ SelectionChangeRange(range, firefox, throws)
    /\ marker'.isFirefox = "false"
    /\ ~throws
    /\ AnchorInLayer(range, marker.prevRange)

\* what holds of every selectionchange: the test on the previous range picks
\* the anchor, a start anchor gets the marker right before it, an end anchor
\* with a next sibling gets it right after it, the previous range is
\* replaced, and with native handling detected the marker stays
C26_MarkerMovesToInsertTarget ==
    [][ \A range \in ValidRanges, firefox \in {"true", "false"}, throws \in BOOLEAN :
          /\ ReachesTryBlock(range, firefox, throws) =>
                /\ marker'.prevRange = range
                /\ ModifyStart(range, marker.prevRange)
                      => RightBefore(marker'.at, range.start.node)
                /\ (~ModifyStart(range, marker.prevRange)
                      /\ NextSibling(range.end.node, marker.at) # "null")
                      => RightAfter(marker'.at, range.end.node)
          /\ (SelectionChangeRange(range, firefox, throws) /\ marker'.isFirefox = "true")
                => marker'.at = marker.at /\ marker'.prevRange = marker.prevRange
      ]_vars

\* C26: on each selectionchange without native handling the marker of the
\* layer holding the moving boundary is put next to that boundary: before
\* the start anchor when the end of the new range coincides with a boundary
\* of the previous range, after the end anchor otherwise, and the previous
\* range is replaced by the new one; with native handling detected no
\* selectionchange moves a marker.
C26_MarkerFollowsBoundary ==
    [][ \A range \in ValidRanges, firefox \in {"true", "false"}, throws \in BOOLEAN :
          /\ ReachesTryBlock(range, firefox, throws) =>
                /\ marker'.prevRange = range
                /\ IF ModifyStart(range, marker.prevRange)
                   THEN RightBefore(marker'.at, range.start.node)
                   ELSE RightAfter(marker'.at, range.end.node)
          /\ (SelectionChangeRange(range, firefox, throws) /\ marker'.isFirefox = "true")
                => marker'.at = marker.at
      ]_vars

\* ---------------------------------------------------------------------
\* Grouping of the fragments in the highlights of getAnnotationDimension
\* ---------------------------------------------------------------------
\* the horizontal gap between two rects (negative when they overlap)
HorizontalGap(a, b) ==
    Max2(b.left - (a.left + a.width), a.left - (b.left + b.width))

\* two fragments of one page whose vertical extents overlap and that
\* overlap horizontally or are at most MERGE_THRESHOLD apart
FragmentsLinked(a, b) ==
    /\ a.pageNumber = b.pageNumber
    /\ a.top < b.top + b.height /\ b.top < a.top + a.height
    /\ HorizontalGap(a, b) <= MERGE_THRESHOLD * Unit

\* the fragments linked to those of S by a chain of linked fragments
RECURSIVE LinkedGroup(_, _)
LinkedGroup(S, inputs) ==
    LET T == S \cup { r \in inputs : \E s \in S : FragmentsLinked(s, r) }
    IN  IF T = S THEN S ELSE LinkedGroup(T, inputs)

\* two fragments of one page and one line
SameLine(a, b) ==
    /\ a.pageNumber = b.pageNumber
    /\ 2 * Abs(a.top - b.top) < Max2(a.height, b.height)

\* C27: in the highlights of getAnnotationDimension, two fragments of one
\* page that overlap, or are within MERGE_THRESHOLD horizontally while
\* overlapping vertically, or are linked by a chain of such fragments, lie
\* inside one output rectangle; two same-line fragments further apart than
\* MERGE_THRESHOLD, and not so linked, lie in different output rectangles.
C27_LinkedFragmentsMerged ==
    Computed(annDim) =>
        \A a, b \in AnnInputs :
            /\ b \in LinkedGroup({a}, AnnInputs)
                  => \E o \in SetOf(annDim.highlights) : Inside(a, o) /\ Inside(b, o)
            /\ (SameLine(a, b) /\ HorizontalGap(a, b) > MERGE_THRESHOLD * Unit
                  /\ b \notin LinkedGroup({a}, AnnInputs))
                  => ~\E o \in SetOf(annDim.highlights) : Inside(a, o) /\ Inside(b, o)

\* ---------------------------------------------------------------------
\* Line-grouped underline merging in getAnnotationDimension
\* ---------------------------------------------------------------------
\* the left-sorted lines getAnnotationDimension makes of its underline rects
SortedLines ==
    LET map == AnnInputMaps.underline
        LinesOf(groups) == { SortByLeft(groups[g], 1, <<>>) : g \in DOMAIN groups }
    IN  UNION { LinesOf(groupRectsByLine(map[k].rects, 1, <<>>)) : k \in DOMAIN map }

\* the gap after rect i of a line is wider than max(MERGE_THRESHOLD, 0.3 h)
GapTooWide(line, i) ==
    10 * (line[i + 1].left - (line[i].left + line[i].width))
        > Max2(10 * MERGE_THRESHOLD * Unit, 3 * line[i].height)

\* where the maximal runs of a line start
RunStarts(line) ==
    {1} \cup { i + 1 : i \in { i \in 1..(Len(line) - 1) : GapTooWide(line, i) } }

\* the last rect of the maximal run that starts at s
RunLast(line, s) ==
    SetMin({ t - 1 : t \in { t \in RunStarts(line) : t > s } } \cup { Len(line) })

\* the place of the run that starts at s among the runs of its line
RunRank(line, s) == Cardinality({ t \in RunStarts(line) : t <= s })

RightEdge(r) == r.left + r.width

\* the underline of each maximal run starts at the run's first rect, has
\* its top, and ends at the right edge of the run's last rect
C28_RunUnderlineEndsAtLastRect ==
    Computed(annDim) =>
        \A line \in SortedLines :
            LET out == LineRects(line, 1)
            IN  /\ Len(out) = Cardinality(RunStarts(line))
                /\ \A s \in RunStarts(line) :
                      LET o == out[RunRank(line, s)]
                      IN  /\ o.left = line[s].left
                          /\ o.top = line[s].top
                          /\ RightEdge(o) = RightEdge(line[RunLast(line, s)])

\* C28: in line-grouped underline merging every maximal run of left-sorted
\* rects of one line with consecutive gaps of at most max(MERGE_THRESHOLD,
\* 0.3 x rect height) yields exactly one underline: its left is the run's
\* leftmost edge, its right edge the largest right edge of the rects of
\* the run, its top the top of the run's first rect.
C28_RunUnderlineSpansRun ==
    Computed(annDim) =>
        \A line \in SortedLines :
            LET out == LineRects(line, 1)
            IN  /\ Len(out) = Cardinality(RunStarts(line))
                /\ \A s \in RunStarts(line) :
                      LET o == out[RunRank(line, s)]
                          run == s..RunLast(line, s)
                      IN  /\ o.left = SetMin({ line[i].left : i \in run })
                          /\ o.top = line[s].top
                          /\ RightEdge(o) = SetMax({ RightEdge(line[i]) : i \in run })

\* ---------------------------------------------------------------------
\* Selections of superscripts: the underline fallback of
\* getAnnotationDimension
\* ---------------------------------------------------------------------
\* client rects over superscript elements of two lines, and one over
\* ordinary text
SupFragChoices ==
    { [left |-> 62, top |-> 10, width |-> 12, height |-> 5, sup |-> TRUE],
      [left |-> 64, top |-> 13, width |-> 12, height |-> 3, sup |-> TRUE],
      [left |-> 62, top |-> 80, width |-> 12, height |-> 5, sup |-> TRUE],
      ClientRect(10, 10, 50, 10) }

InitFallback ==
    /\ RasterIdle
    /\ ClampIdle
    /\ GeomIdle
    /\ UiIdle
    /\ bouncyZoom \in SelectionZooms

NextFallback ==
    \/ \E cr \in SupFragChoices : Select(cr)
    \/ Collapse
    \/ GetDimension
    \/ GetAnnotationDimension

SpecFallback == InitFallback /\ [][NextFallback]_vars

\* the underline the fallback makes of a highlight: 1.5 thick at 85% of
\* its height
SynthesizedTop(h) == h.top + (17 * h.height) \div 20

\* underline u lies on the synthesized underline of highlight h and spans it
CoversSynthesized(u, h) ==
    /\ u.pageNumber = h.pageNumber
    /\ Abs(u.top - SynthesizedTop(h)) < 1 * Unit
    /\ u.left <= h.left /\ RightEdge(h) <= RightEdge(u)

JSONStringify(list) == [kind |-> "json", list |-> list]

\* JSON.parse of a text JSON.stringify made
JSONParse(text) == text.list

\* what localStorage holds when the viewer mounts
StoredTexts ==
    { [kind |-> "absent", list |-> <<>>], [kind |-> "corrupt", list |-> <<>>],
      JSONStringify(<< [id |-> 1, color |-> "yellow"] >>) }

\* a load effect whose catch block empties the store
loadAnnotationsClearing(p, list, getItemThrows) ==
    IF getItemThrows \/ p.storage.kind = "corrupt"
    THEN [annotations |-> <<>>, called |-> FALSE,
          persistence |-> [p EXCEPT !.loaded = TRUE, !.logged = "load"]]
    ELSE IF p.storage.kind = "absent"
    THEN [annotations |-> list, called |-> FALSE,
          persistence |-> [p EXCEPT !.loaded = TRUE]]
    ELSE [annotations |-> JSONParse(p.storage), called |-> TRUE,
          persistence |-> [p EXCEPT !.loaded = TRUE,
                                    !.savedAnnotations = JSONParse(p.storage)]]

\* the load effect of AnaraViewer: the store's list, whether setAnnotations
\* was called, and the persistence state it leaves
loadAnnotations(p, list, getItemThrows) ==
    IF getItemThrows \/ p.storage.kind = "corrupt"
    THEN [annotations |-> list, called |-> FALSE,
          persistence |-> [p EXCEPT !.loaded = TRUE, !.logged = "load"]]
    ELSE IF p.storage.kind = "absent"
    THEN [annotations |-> list, called |-> FALSE,
          persistence |-> [p EXCEPT !.loaded = TRUE]]
    ELSE [annotations |-> JSONParse(p.storage), called |-> TRUE,
          persistence |-> [p EXCEPT !.loaded = TRUE,
                                    !.savedAnnotations = JSONParse(p.storage)]]

\* handleAnnotationsChange(annotations)
handleAnnotationsChange(p, list, setItemThrows) ==
    IF setItemThrows
    THEN [p EXCEPT !.logged = "save"]
    ELSE [p EXCEPT !.storage = JSONStringify(list), !.savedAnnotations = list]

\* AnaraViewer mounts: localStorage.getItem may throw
LoadEffect(getItemThrows) ==
    /\ persistence # None /\ ~persistence.loaded
    /\ LET out == loadAnnotations(persistence, annotations, getItemThrows)
       IN  /\ persistence' = out.persistence
           /\ annotations' = out.annotations
           /\ lastCall' = IF out.called
                          THEN [op |-> "setAnnotations", id |-> 0, arg |-> out.annotations]
                          ELSE lastCall
    /\ UNCHANGED <<commented, editingAnnotationId, pendingSelection, focusedAnnotationId, uuids>>
    /\ UNCHANGED <<rasterVars, clampVars, geomVars, textVars, tipVars, marker, pointerHeld, renders>>

\* the effect of PDFContent runs, on mount and after the store's list
\* changed: localStorage.setItem may throw
AnnotationsChangeEffect(setItemThrows) ==
    /\ persistence # None
    /\ ~persistence.seen.ran \/ persistence.seen.list # annotations
    /\ persistence' =
          [handleAnnotationsChange(persistence, annotations, setItemThrows)
             EXCEPT !.seen = [ran |-> TRUE, list |-> annotations]]
    /\ UNCHANGED <<rasterVars, clampVars, geomVars, textVars, storeVars, tipVars, marker, pointerHeld, renders>>

\* records the store holds at most while the viewer persists them
MaxStored == 2

\* the effects of the last render have run: React runs them before the
\* next event is handled
EffectsFlushed ==
    /\ persistence # None
    /\ persistence.seen.ran /\ persistence.seen.list = annotations

InitPersist ==
    /\ RasterIdle
    /\ bouncyZoom = RInt(1)
    /\ ClampIdle
    /\ GeomIdle
    /\ TextIdle
    /\ StoreIdle
    /\ TipIdle
    /\ marker = None /\ pointerHeld = FALSE /\ renders = None
    /\ \E text \in StoredTexts :
        persistence = [storage |-> text, persisted |-> text,
                      savedAnnotations |-> <<>>, loaded |-> FALSE,
                      seen |-> [ran |-> FALSE, list |-> <<>>], logged |-> "none",
                      uncaught |-> FALSE, reported |-> FALSE]

NextPersist ==
    \/ \E getItemThrows \in BOOLEAN : LoadEffect(getItemThrows)
    \/ \E setItemThrows \in BOOLEAN : AnnotationsChangeEffect(setItemThrows)
    \/ /\ EffectsFlushed /\ Len(annotations) < MaxStored
       /\ \E annotation \in NewAnnotations : AddAnnotation(annotation)
    \/ /\ EffectsFlushed
       /\ \E id \in AnnotationIds : UpdateAnnotation(id, [color |-> "blue"])
    \/ /\ EffectsFlushed
       /\ \E id \in AnnotationIds : DeleteAnnotation(id)

SpecPersist == InitPersist /\ [][NextPersist]_vars

\* a step in which the load or the save of the persistence collaborator
\* threw
LoadFailed == LoadEffect(TRUE) \/ (LoadEffect(FALSE) /\ persistence.storage.kind = "corrupt")

SaveFailed == AnnotationsChangeEffect(TRUE)

\* C30: a load or save that throws is caught at the boundary: nothing
\* propagates into the viewer, the failure is logged, the store's list is
\* left as it was (a failed save also leaves what is stored), and add,
\* update and delete go on working on the store afterwards.
C30_PersistenceFailureCaught ==
    [][ /\ LoadFailed =>
              /\ annotations' = annotations
              /\ persistence'.logged = "load"
              /\ ~persistence'.uncaught
        /\ SaveFailed =>
              /\ annotations' = annotations
              /\ persistence'.storage = persistence.storage
              /\ persistence'.logged = "save"
              /\ ~persistence'.uncaught
        /\ persistence.logged # "none" =>
              /\ \A annotation \in NewAnnotations :
                    AddAnnotation(annotation)
                        => annotations' = Append(annotations, annotation)
              /\ \A id \in AnnotationIds :
                    DeleteAnnotation(id)
                        => \A i \in DOMAIN annotations' : annotations'[i].id # id
              /\ \A id \in AnnotationIds :
                    (UpdateAnnotation(id, [color |-> "blue"])
                        /\ lastCall'.arg = [color |-> "blue"])
                        => \A i \in DOMAIN annotations' :
                              annotations'[i].id = id => annotations'[i].color = "blue"
      ]_vars

\* the load threw with a record in the store, a save threw later, and the
\* store still took an add after that: the record added before the load
\* and the one added after the failures are both there, nothing was stored
C30_Witness ==
    /\ persistence # None
    /\ persistence.loaded
    /\ persistence.logged = "save"
    /\ persistence.storage.kind = "corrupt"
    /\ persistence.seen.ran /\ persistence.seen.list # annotations
    /\ lastCall.op = "addAnnotation"
    /\ Len(annotations) = 2

\* C31: every failed persistence write is reported to the consuming
\* application through an error callback, not only swallowed or logged.
C31_FailedWriteReported ==
    [][ SaveFailed => persistence'.reported ]_vars

\* ---------------------------------------------------------------------------
\* C33: the abort controller of the document listeners exists exactly while
\* the registry of text containers is not empty: removing the last container
\* aborts the listeners, and the registration that follows installs them
\* again, while a registration into a non-empty registry installs nothing.
ListenersInstalled == ~listening /\ listening'

ListenersAborted == listening /\ ~listening'

C33_ListenersWhileRegistered ==
    /\ [](listening <=> textLayers # {})
    /\ [][ /\ ListenersInstalled <=> (textLayers = {} /\ textLayers' # {})
           /\ ListenersAborted <=> (textLayers # {} /\ textLayers' = {}) ]_vars

\* the last container was removed and the listeners are gone, the marker of
\* an earlier registration still in the page
C33_Witness ==
    /\ textLayers = {}
    /\ ~listening
    /\ lastEvent = "cleanup"
    /\ \E l \in TextLayerDivs : layerDom[l].endOfContent # "absent"

\* ---------------------------------------------------------------------------
\* C34: the pointer-down flag of the selection manager is true only between
\* a pointerdown and the next pointerup or blur, whatever containers are
\* registered and removed in between; so a keyup that is heard while the
\* pointer is released runs the reset sweep.
KeyUpHeard == listening /\ lastEvent' = "keyup"

C34_PointerFlagTracksPointer ==
    /\ [](isPointerDown => pointerHeld)
    /\ [][ (KeyUpHeard /\ ~pointerHeld) => layerDom' = ResetAll ]_vars

\* ---------------------------------------------------------------------------
\* The text layer renders of useTextLayer (useTextLayer.tsx:188-259).  Each
\* text container belongs to one mounted hook, whose refs are textLayerRef
\* and isRenderingRef; a TextLayer is named by the number of its render, 0
\* standing for null.  The promise of a render is pending while its number
\* is in inflight, and settles by the then or the catch callback; resolved
\* records the renders whose then callback ran, resolvedLate those among
\* them that had been cancelled before.

\* the effect runs of one hook that the model follows
MaxTextRenders == 3

\* the hook of a container that has not been mounted yet
NewHook ==
    [ phase |-> "new", textLayerRef |-> 0, isRendering |-> FALSE,
      bound |-> FALSE, hasCleanup |-> FALSE, mousedownListeners |-> 0,
      started |-> 0, inflight |-> {}, cancelled |-> {}, resolved |-> {},
      resolvedLate |-> {} ]

\* textLayerRef.current.cancel() and textLayerRef.current = null
cancelTextLayer(h) ==
    IF h.textLayerRef # 0
    THEN [h EXCEPT !.cancelled = @ \cup {h.textLayerRef}, !.textLayerRef = 0]
    ELSE h

\* the function the effect returns
effectCleanup(h) ==
    LET c == cancelTextLayer([h EXCEPT !.isRendering = FALSE])
    IN  IF c.hasCleanup
        THEN [c EXCEPT !.mousedownListeners = @ - 1, !.bound = FALSE,
                       !.hasCleanup = FALSE]
        ELSE c

\* the body of the effect up to textLayer.render()
effectBody(h) ==
    IF h.isRendering
    THEN h
    ELSE LET c == cancelTextLayer([h EXCEPT !.isRendering = TRUE])
             r == h.started + 1
         IN  [c EXCEPT !.textLayerRef = r, !.started = r, !.inflight = @ \cup {r}]

\* the test of the then callback
thenAlways(h, r) == TRUE

thenTest(h, r) == h.textLayerRef = r

\* what the registry, the page and the listeners become when the cleanup of
\* container c has run
RegistryAfterCleanup(c) ==
    IF renders[c].hasCleanup
    THEN /\ textLayers' = textLayers \ {c}
         /\ listening' = (textLayers' # {})
         /\ lastEvent' = "cleanup"
    ELSE UNCHANGED <<textLayers, listening, lastEvent>>

\* the remainder of the model, which the hook leaves alone
HookFrame ==
    /\ UNCHANGED <<isPointerDown, prevRange, isFirefox, docSelection>>
    /\ UNCHANGED <<rasterVars, clampVars, geomVars, storeVars, tipVars>>
    /\ UNCHANGED <<marker, persistence, pointerHeld>>

\* the hook of container c mounts: its effect runs for the first time
MountTextLayer(c) ==
    /\ renders[c].phase = "new"
    /\ renders' = [renders EXCEPT ![c] = effectBody([@ EXCEPT !.phase = "mounted"])]
    /\ layerDom' = [layerDom EXCEPT ![c] = BareLayer]
    /\ UNCHANGED <<textLayers, listening, lastEvent>>
    /\ HookFrame

\* the page proxy changes: the cleanup runs, then the effect again
RerunTextLayer(c) ==
    /\ renders[c].phase = "mounted"
    /\ renders[c].started < MaxTextRenders
    /\ renders' = [renders EXCEPT ![c] = effectBody(effectCleanup(@))]
    /\ RegistryAfterCleanup(c)
    /\ layerDom' = [layerDom EXCEPT ![c] = BareLayer]
    /\ HookFrame

\* the hook unmounts: the cleanup runs
UnmountTextLayer(c) ==
    /\ renders[c].phase = "mounted"
    /\ renders' = [renders EXCEPT ![c] = [effectCleanup(@) EXCEPT !.phase = "unmounted"]]
    /\ RegistryAfterCleanup(c)
    /\ UNCHANGED layerDom
    /\ HookFrame

\* render r of container c resolves, whether or not it was cancelled after
\* its text was laid out: the then callback, then the finally callback
RenderResolves(c, r) ==
    /\ r \in renders[c].inflight
    /\ LET h == renders[c]
           settled == [h EXCEPT !.inflight = @ \ {r}, !.resolved = @ \cup {r},
                                !.resolvedLate = @ \cup ({r} \cap h.cancelled),
                                !.isRendering = FALSE]
       IN  IF thenTest(h, r)
           THEN /\ layerDom' = [layerDom EXCEPT ![c].endOfContent = "child",
                                                ![c].sized = FALSE]
                /\ IF h.bound
                   THEN /\ renders' = [renders EXCEPT ![c] = settled]
                        /\ UNCHANGED <<textLayers, listening, lastEvent>>
                   ELSE /\ renders' = [renders EXCEPT ![c] =
                               [settled EXCEPT !.bound = TRUE, !.hasCleanup = TRUE,
                                               !.mousedownListeners = @ + 1]]
                        /\ textLayers' = textLayers \cup {c}
                        /\ listening' = TRUE
                        /\ lastEvent' = "bind"
           ELSE /\ renders' = [renders EXCEPT ![c] = settled]
                /\ UNCHANGED <<textLayers, layerDom, listening, lastEvent>>
    /\ HookFrame

\* render r of container c rejects, with the AbortException of cancel() or
\* with an error of the text stream: the catch callback, then the finally
RenderRejects(c, r) ==
    /\ r \in renders[c].inflight
    /\ renders' = [renders EXCEPT ![c] = [@ EXCEPT !.inflight = @ \ {r},
                                                   !.isRendering = FALSE]]
    /\ UNCHANGED <<textLayers, layerDom, listening, lastEvent>>
    /\ HookFrame

InitTextLayer ==
    /\ RasterIdle
    /\ bouncyZoom = RInt(1)
    /\ ClampIdle
    /\ GeomIdle
    /\ TextIdle
    /\ StoreIdle
    /\ TipIdle
    /\ marker = None /\ persistence = None /\ pointerHeld = FALSE
    /\ renders = [c \in TextLayerDivs |-> NewHook]

NextTextLayer ==
    \/ \E c \in TextLayerDivs : MountTextLayer(c)
    \/ \E c \in TextLayerDivs : RerunTextLayer(c)
    \/ \E c \in TextLayerDivs : UnmountTextLayer(c)
    \/ \E c \in TextLayerDivs, r \in 1..MaxTextRenders : RenderResolves(c, r)
    \/ \E c \in TextLayerDivs, r \in 1..MaxTextRenders : RenderRejects(c, r)

SpecTextLayer == InitTextLayer /\ [][NextTextLayer]_vars

\* C32: the registry holds exactly the mounted containers whose latest text
\* layer render has resolved: a container enters it only by the then
\* callback of its latest render, which was not cancelled, holds one
\* mousedown listener while it is in it, leaves it when its hook unmounts or
\* runs its effect again, and a render that resolves after that registers
\* nothing.
LatestResolved(h) ==
    /\ h.phase = "mounted"
    /\ h.textLayerRef # 0
    /\ h.textLayerRef \in h.resolved

C32_RegistryIsRenderedContainers ==
    /\ [](\A c \in TextLayerDivs :
            /\ c \in textLayers <=> LatestResolved(renders[c])
            /\ renders[c].mousedownListeners = (IF c \in textLayers THEN 1 ELSE 0))
    /\ [][ \A c \in TextLayerDivs :
            /\ (c \notin textLayers /\ c \in textLayers') =>
                  /\ renders[c].textLayerRef = renders[c].started
                  /\ renders[c].started \notin renders[c].cancelled
                  /\ RenderResolves(c, renders[c].started)
            /\ (\E r \in renders[c].cancelled : RenderResolves(c, r)) =>
                  (c \in textLayers' <=> c \in textLayers) ]_vars

\* container 1 is registered by its second render, whose first render
\* resolved after it was superseded; the only render of container 2 resolved
\* after the container was unmounted
C32_Witness ==
    /\ 1 \in textLayers
    /\ renders[1].started = 2
    /\ renders[1].resolvedLate = {1}
    /\ renders[2].phase = "unmounted"
    /\ renders[2].resolvedLate = {1}
    /\ 2 \notin textLayers

\* ---------------------------------------------------------------------------
\* The place of the end-of-content markers in the document tree.  Under the
\* body, each text layer div l sits in its page div and holds a span with a
\* text node, and a marked-content wrapper holding a second span with a text
\* node and an inner wrapper with a third; the marker of l is where the code
\* last put it.  The class list and
\* the style of the layers are those of the model above and are left out.
NoNode == [l |-> 0, k |-> "none"]

BodyNode == [l |-> 0, k |-> "body"]

LayerNode(l) == [l |-> l, k |-> "layer"]

MarkerNode(l) == [l |-> l, k |-> "marker"]

LayerKinds ==
    {"page", "layer", "spanA", "textA", "wrapper", "spanB", "textB",
     "inner", "spanC", "textC", "marker"}

\* the nodes a boundary point of the selection can be in
DocNodes == {BodyNode} \cup [l : TextLayerDivs, k : LayerKinds]

\* node.parentNode, the markers placed as parents tells
parentNode(n, parents) ==
    CASE n.k = "page" -> BodyNode
      [] n.k = "layer" -> [l |-> n.l, k |-> "page"]
      [] n.k \in {"spanA", "wrapper"} -> LayerNode(n.l)
      [] n.k \in {"spanB", "inner"} -> [l |-> n.l, k |-> "wrapper"]
      [] n.k = "spanC" -> [l |-> n.l, k |-> "inner"]
      [] n.k = "textC" -> [l |-> n.l, k |-> "spanC"]
      [] n.k = "textA" -> [l |-> n.l, k |-> "spanA"]
      [] n.k = "textB" -> [l |-> n.l, k |-> "spanB"]
      [] n.k = "marker" -> parents[n.l]
      [] OTHER -> NoNode

\* element.closest(".textLayer"): the element or its nearest ancestor that is
\* a text layer div
RECURSIVE closest(_, _)
closest(n, parents) ==
    IF n.k \in {"none", "body", "page"} THEN NoNode
    ELSE IF n.k = "layer" THEN n
    ELSE closest(parentNode(n, parents), parents)

\* a lookup that answers with the marker of some registered layer
textLayersGetAny(layer) ==
    IF textLayers = {} THEN 0 ELSE CHOOSE l \in textLayers : TRUE



\* textLayers.get(parentTextLayer): the layer whose marker is found, 0 for
\* undefined
textLayersGet(layer) ==
    IF layer.k = "layer" /\ layer.l \in textLayers THEN layer.l ELSE 0

\* textLayers.forEach(reset), for the layers in sweep
resetParents(sweep) ==
    [l \in TextLayerDivs |->
        IF l \in sweep /\ marker.parent[l] # LayerNode(l)
        THEN LayerNode(l) ELSE marker.parent[l]]

\* the remainder of the model, which the markers' places leave alone
DomFrame ==
    /\ UNCHANGED <<layerDom, isPointerDown, prevRange, isFirefox, docSelection>>
    /\ UNCHANGED <<rasterVars, clampVars, geomVars, storeVars, tipVars>>
    /\ UNCHANGED <<persistence, pointerHeld, renders>>

\* the then callback of a render: appendChild(endOfContent), bindMouseEvents
DomRegister(l) ==
    /\ l \notin textLayers
    /\ marker' = [marker EXCEPT !.parent[l] = LayerNode(l)]
    /\ textLayers' = textLayers \cup {l}
    /\ listening' = TRUE
    /\ lastEvent' = "bind"
    /\ DomFrame

\* the effect cleanup; the marker stays where it is
DomUnregister(l) ==
    /\ l \in textLayers
    /\ textLayers' = textLayers \ {l}
    /\ listening' = (textLayers' # {})
    /\ lastEvent' = "cleanup"
    /\ UNCHANGED marker
    /\ DomFrame

\* pointerup, blur, a keyup with the pointer released, or a selectionchange
\* with no range: every registered layer is reset
DomResetSweep ==
    /\ listening
    /\ marker' = [marker EXCEPT !.parent = resetParents(textLayers)]
    /\ lastEvent' = "pointerup"
    /\ UNCHANGED <<textLayers, listening>>
    /\ DomFrame

\* selectionchange with a range whose boundary points are in startContainer
\* and endContainer: the layers the ranges do not intersect are reset, then
\* the marker of the anchor's layer is moved next to the anchor.  Whether the
\* previous range makes this a change of the start, whether the anchor has a
\* next sibling, and what getComputedStyle answers the first time are inputs.
DomSelectionChange(active, startContainer, endContainer, modifyStart, hasNext, mozNone) ==
    /\ listening
    /\ active \subseteq textLayers
    /\ LET swept == resetParents(textLayers \ active)
           firefox == IF marker.isFirefox = "undefined"
                      THEN (IF mozNone THEN "yes" ELSE "no")
                      ELSE marker.isFirefox
           container == IF modifyStart THEN startContainer ELSE endContainer
           anchor == IF container.k \in {"textA", "textB", "textC"}
                     THEN parentNode(container, swept) ELSE container
           parentElement == parentNode(anchor, swept)
           parentTextLayer == closest(parentElement, swept)
           endDiv == textLayersGet(parentTextLayer)
           insertTarget == modifyStart \/ hasNext
       IN  /\ marker' =
                IF firefox = "no" /\ endDiv # 0 /\ parentElement.k # "none" /\ insertTarget
                THEN [parent |-> [swept EXCEPT ![endDiv] = parentElement],
                      isFirefox |-> firefox]
                ELSE [parent |-> swept, isFirefox |-> firefox]
    /\ lastEvent' = "selectionchange"
    /\ UNCHANGED <<textLayers, listening>>
    /\ DomFrame

InitDom ==
    /\ RasterIdle
    /\ bouncyZoom = RInt(1)
    /\ ClampIdle
    /\ GeomIdle
    /\ TextIdle
    /\ StoreIdle
    /\ TipIdle
    /\ persistence = None /\ pointerHeld = FALSE /\ renders = None
    /\ marker = [parent |-> [l \in TextLayerDivs |-> NoNode], isFirefox |-> "undefined"]

NextDom ==
    \/ \E l \in TextLayerDivs : DomRegister(l)
    \/ \E l \in TextLayerDivs : DomUnregister(l)
    \/ DomResetSweep
    \/ \E active \in SUBSET TextLayerDivs, startContainer \in DocNodes,
          endContainer \in DocNodes, modifyStart \in BOOLEAN, hasNext \in BOOLEAN,
          mozNone \in BOOLEAN :
          DomSelectionChange(active, startContainer, endContainer, modifyStart,
                             hasNext, mozNone)

SpecDom == InitDom /\ [][NextDom]_vars

\* C35: the marker of every registered text layer div is a descendant of
\* that div, after every reset sweep and every repositioning.
RECURSIVE IsDescendant(_, _, _)
IsDescendant(n, ancestor, parents) ==
    /\ n.k # "none"
    /\ LET p == parentNode(n, parents)
       IN  p = ancestor \/ IsDescendant(p, ancestor, parents)

C35_MarkerInsideOwnContainer ==
    \A l \in textLayers : IsDescendant(MarkerNode(l), LayerNode(l), marker.parent)

\* a selection change has moved the marker of layer 1 into the wrapper of
\* layer 1 while layer 2 is registered with its marker as its own child
C35_Witness ==
    /\ textLayers = {1, 2}
    /\ lastEvent = "selectionchange"
    /\ marker.parent[1] = [l |-> 1, k |-> "wrapper"]
    /\ marker.parent[2] = LayerNode(2)

\* ---------------------------------------------------------------------------
\* The store used as its contract asks: addAnnotation with an id the store
\* does not hold, setAnnotations with a list free of duplicates, and
\* updateAnnotation with any Partial<Annotation>, whose fields include id.
IdsOf(list) == { list[i].id : i \in DOMAIN list }

DuplicateFree(list) ==
    \A i, j \in DOMAIN list : list[i].id = list[j].id => i = j

\* the partial records of Partial<Annotation>, id among the fields
PartialAnnotations ==
    UpdateChoices \cup { [id |-> id] : id \in AnnotationIds }

InitIds ==
    /\ RasterIdle
    /\ bouncyZoom = RInt(1)
    /\ ClampIdle
    /\ GeomIdle
    /\ UiIdle

NextIds ==
    \/ \E annotation \in NewAnnotations :
          /\ annotation.id \notin IdsOf(annotations)
          /\ AddAnnotation(annotation)
    \/ \E id \in AnnotationIds, updates \in PartialAnnotations : UpdateAnnotation(id, updates)
    \/ \E id \in AnnotationIds : DeleteAnnotation(id)
    \/ \E replacement \in ReplacementLists :
          /\ DuplicateFree(replacement)
          /\ SetAnnotations(replacement)

SpecIds == InitIds /\ [][NextIds]_vars

\* C36: with adds of absent ids and duplicate-free replacements only, the
\* ids of the store's records stay pairwise distinct, and an update leaves
\* the id of every record as it was.
UpdateStep == \E id \in AnnotationIds, updates \in PartialAnnotations : UpdateAnnotation(id, updates)

C36_IdsStayDistinct ==
    /\ [] DuplicateFree(annotations)
    /\ [][ UpdateStep =>
             /\ Len(annotations') = Len(annotations)
             /\ \A i \in DOMAIN annotations : annotations'[i].id = annotations[i].id ]_vars

\* ---------------------------------------------------------------------------
\* The tooltip with its timers running: a timer that setTimeout has started
\* fires unless clearTimeout stops it first.
FairTooltip ==
    /\ SpecTooltip
    /\ WF_vars(CloseTimeoutFires)
    /\ WF_vars(OrphanTimeoutFires)

\* the pointer has left the highlight, which started the close timer, and is
\* over neither the highlight nor the hover tooltip
PointerHasLeft ==
    /\ tooltip.pointer = "away"
    /\ tooltip.closeTimeout = "pending"

\* the pointer is away and the hover focus does not name this annotation
StaysAway ==
    /\ tooltip.pointer = "away"
    /\ tooltip.controlledHoverIsOpen # "true"
    /\ tooltip.focusedHoverOpenId # "self"

\* C37: with the timers running, once the pointer has left the highlight
\* and stays off the highlight and the hover tooltip, and the hover focus
\* does not name the annotation, the hover tooltip's open state becomes
\* false, whatever enter, leave and click-open events came before.
C37_HoverEventuallyCloses ==
    []((PointerHasLeft /\ []StaysAway) => <>~HoverIsOpen(tooltip))

\* ---------------------------------------------------------------------------
\* Implicit removals: a record that a composer cancel or a tooltip close
\* takes out of the store
ImplicitlyRemoved(id) ==
    /\ lastCall'.op \in { "handleCancelComment", "handleAnnotationTooltipClose" }
    /\ InStore(annotations, id)
    /\ ~InStore(annotations', id)

RemovedIds == { annotations[i].id : i \in DOMAIN annotations }

\* the first half of C38 alone: a composer cancel or a tooltip close removes
\* no annotation that is not comment-pending
C38_HighlightsKept ==
    [][ \A id \in RemovedIds : ImplicitlyRemoved(id) =>
            IsCommentPending(annotations[FindAnnotation(annotations, id)]) ]_vars

\* C38: an annotation that is not comment-pending is never removed by a
\* composer cancel or a tooltip close, and an annotation is removed by them
\* only if it is comment-pending and never had a comment attached.
C38_ImplicitRemovalOnlyOfUncommented ==
    [][ \A id \in RemovedIds : ImplicitlyRemoved(id) =>
            /\ IsCommentPending(annotations[FindAnnotation(annotations, id)])
            /\ id \notin commented ]_vars

\* ---------------------------------------------------------------------------
\* The two effects of the mount.  The load effect belongs to AnaraViewer and
\* the save effect to PDFContent below it; both orders are followed, the
\* save effect running with the list the store holds when it runs.

\* an earlier session left a list of annotations in localStorage
SessionPersisted ==
    /\ persistence.persisted.kind = "json"
    /\ JSONParse(persistence.persisted) # <<>>

\* the save effect runs for the first time, with the store's initial list
InitialSave ==
    /\ ~persistence.seen.ran
    /\ annotations = <<>>
    /\ \E setItemThrows \in BOOLEAN : AnnotationsChangeEffect(setItemThrows)

\* C39: in either order of the load effect and of the first run of the save
\* effect, the annotations an earlier session persisted are in the store
\* after the load, and the first save does not replace the persisted list by
\* the empty list.
C39_PersistedSurvivesMount ==
    [][ /\ (SessionPersisted /\ LoadEffect(FALSE)) =>
              annotations' = JSONParse(persistence.persisted)
        /\ (SessionPersisted /\ InitialSave) =>
              persistence'.storage = persistence.persisted ]_vars

\* ---------------------------------------------------------------------------
\* The same text selected at two zooms.  A fragment of text has a place on
\* its page, in whole page pixels; on screen it is a client rect at the
\* text layer's origin plus its page coordinates times the zoom, which is
\* also how the tooltip reference places a stored rectangle.  selection
\* holds the fragments (page) next to the client rects the browser reports
\* for them at the present zoom (rects); dim holds, for each zoom, what
\* getAnnotationDimension returned there; annDim holds a stored rectangle with the
\* rectangle that comes back from its client rect.
PageFragChoices ==
    { ClientRect(0, 0, 50, 10), ClientRect(52, 0, 30, 10),
      ClientRect(0, 20, 2, 10), ClientRect(10, 40, 3, 3) }

\* the zooms a stored rectangle is shown at
ShownZooms == SelectionZooms \cup { Rat(3, 2) }

\* range.getClientRects() of the fragments of page 1 at zoom z
ClientRectsAt(frags, z) ==
    LET lr == LayerRect(1, z)
        k == RFloor(z)
    IN  [i \in DOMAIN frags |->
            ClientRect(lr.left + frags[i].left * k, lr.top + frags[i].top * k,
                       frags[i].width * k, frags[i].height * k)]

\* pageRect.left + highlight.left * scale, and so on: the client rect of a
\* stored rectangle, its coordinates relative to the page origin
ScaledRect(h, scale) ==
    [left |-> RMul(RInt(h.left), scale), top |-> RMul(RInt(h.top), scale),
     width |-> RMul(RInt(h.width), scale), height |-> RMul(RInt(h.height), scale)]

\* (client - textLayerRect) / zoom of that client rect
UnscaledRect(s, h, z) ==
    [h EXCEPT !.left = RFloor(RDiv(s.left, z)), !.top = RFloor(RDiv(s.top, z)),
              !.width = RFloor(RDiv(s.width, z)), !.height = RFloor(RDiv(s.height, z))]

ZoomFrame == UNCHANGED <<clampVars, uiVars>>

\* the user extends the selection by one more fragment of text
SelectText(frag) ==
    /\ \A k \in DOMAIN dim : dim[k] = None
    /\ Len(selection.page) < MaxFrags
    /\ LET frags == Append(selection.page, frag)
       IN  selection' = [kind |-> "range", page |-> frags,
                         rects |-> ClientRectsAt(frags, bouncyZoom)]
    /\ UNCHANGED <<dim, annDim, rasterVars>>
    /\ ZoomFrame

\* the zoom changes and the text layer is laid out again
ZoomSelection(z) ==
    /\ z # bouncyZoom
    /\ bouncyZoom' = z
    /\ selection' = [selection EXCEPT !.rects = ClientRectsAt(selection.page, z)]
    /\ UNCHANGED <<dim, annDim>>
    /\ UNCHANGED <<surface, page, zoom, dpr, mounted, scroll, refs, canvas, tasks,
                   cleanup, uncaught>>
    /\ ZoomFrame

\* getAnnotationDimension at the present zoom
ExtractAtZoom ==
    /\ selection.kind = "range"
    /\ dim[RFloor(bouncyZoom)] = None
    /\ \E extracted \in getAnnotationDimension(selection, bouncyZoom) :
          dim' = [dim EXCEPT ![RFloor(bouncyZoom)] = extracted]
    /\ UNCHANGED <<selection, annDim, rasterVars>>
    /\ ZoomFrame

\* a stored rectangle is placed on screen at some zoom and read back
ShowStored(k, i, scale) ==
    /\ dim[k] # None
    /\ i \in DOMAIN dim[k].highlights
    /\ LET h == dim[k].highlights[i]
       IN  annDim' = [stored |-> h, scale |-> scale,
                      back |-> UnscaledRect(ScaledRect(h, scale), h, scale)]
    /\ UNCHANGED <<selection, dim, rasterVars>>
    /\ ZoomFrame

InitZoom ==
    /\ RasterIdle
    /\ ClampIdle
    /\ UiIdle
    /\ bouncyZoom \in SelectionZooms
    /\ selection = [kind |-> "none", page |-> <<>>, rects |-> <<>>]
    /\ dim = [k \in {1, 2} |-> None]
    /\ annDim = None

NextZoom ==
    \/ \E frag \in PageFragChoices : SelectText(frag)
    \/ \E z \in SelectionZooms : ZoomSelection(z)
    \/ ExtractAtZoom
    \/ \E k \in {1, 2}, i \in 1..MaxFrags, scale \in ShownZooms : ShowStored(k, i, scale)

SpecZoom == InitZoom /\ [][NextZoom]_vars

\* the first half of C40 alone: a stored rectangle placed on screen at a
\* zoom and converted back at that zoom is the stored rectangle
C40_RoundTripExact ==
    annDim # None => annDim.back = annDim.stored

\* C40: stored rectangles do not depend on the zoom: a stored rectangle
\* mapped to client space and back is the same rectangle, and the same
\* selected text extracted at two zooms gives the same highlight rectangles.
C40_StoredRectsZoomIndependent ==
    /\ annDim # None => annDim.back = annDim.stored
    /\ (dim[1] # None /\ dim[2] # None) => dim[1].highlights = dim[2].highlights

====
